---- MODULE Spec2Model ----
(***************************************************************************)
(* Verification model of the Java auto-grader's grading engine:            *)
(*   - the Grade Calculator in its three forms (calculateGrades of         *)
(*     database-config.js, calculateGrades of vercel-grader.js, and the    *)
(*     demo-mode simulateGrading),                                         *)
(*   - the Compiler/Runner Adapter (JavaCompilerService.compileAndRun).    *)
(*                                                                         *)
(* Scores are held in thousandths of a point, so that every weight of the  *)
(* rubric (0.5, 1.25, 1.67, 2.33, 3.125, ...) is an integer.  Math.round   *)
(* is Round: nearest integer, ties toward +Infinity.                       *)
(***************************************************************************)
EXTENDS Integers, Sequences, FiniteSets, TLC

\* ---------------------------------------------------------------- bounds
\* most probes that are true in the reports grown from the all-false report
MaxOn == 4
\* most probes that are false in the reports cut from the all-true report
MaxOff == 3
\* most lines of one submitted source text
MaxTextLen == 2
\* most fragments of the transcript a run of the student's program prints
MaxTranscriptLen == 2

VARIABLES
    variant,             \* which grade-computing path: "strict", "lenient", "demo"
    analysis,            \* the AnalysisReport handed to the calculator
    compilationSuccess,  \* calculator input
    executionSuccess,    \* calculator input
    grades,              \* the GradeBreakdown last returned
    runs,                \* how often the current input has been graded: 0, 1 or 2
    transactionContent,  \* compileAndRun argument (sequence of lines)
    portfolioContent,    \* compileAndRun argument (sequence of lines)
    pc,                  \* position of the compileAndRun invocation
    serviceIdx,          \* index into this.services of the service in turn
    response,            \* the last response received from a remote service
    calls,               \* the steps invoked so far, in order, with their outcome
    result,              \* the CompilationResult returned to the caller
    studentName,         \* req.body.studentName of the upload under way
    compilationErrors,   \* callExistingGrader: text of the failed compilation
    executionOutput,     \* captured transcript of the run (sequence of fragments)
    testResults,         \* the TestResult sequence of the upload under way
    feedback,            \* the feedback lines of the upload under way
    stage,               \* position of the upload handler
    submissions,         \* the shared submissions list
    students,            \* the shared student records
    requests,            \* concurrent upload requests: position and data of each
    now,                 \* Date.now(), in milliseconds since the server started
    reply,               \* the last HTTP request handled, with its response
    sessions,            \* express-session: the session of each browser
    professors,          \* the professors table of auth.js
    rows,                \* the students table of supabase-database.js
    updates              \* the updateStudent calls under way

gradeVars == <<variant, analysis, compilationSuccess, executionSuccess, grades, runs>>
adapterVars == <<transactionContent, portfolioContent, pc, serviceIdx, response, calls, result>>
pipelineVars == <<studentName, compilationErrors, executionOutput, testResults, feedback,
                  stage>>
storeVars == <<submissions, students, requests, now, reply, sessions, professors, rows,
               updates>>
vars == <<variant, analysis, compilationSuccess, executionSuccess, grades, runs,
          transactionContent, portfolioContent, pc, serviceIdx, response, calls, result,
          studentName, compilationErrors, executionOutput, testResults, feedback, stage,
          submissions, students, requests, now, reply, sessions, professors, rows,
          updates>>

\* ------------------------------------------------------------ arithmetic
\* Math.round(num / den) for den > 0
Round(num, den) == (2 * num + den) \div (2 * den)

Min(a, b) == IF a < b THEN a ELSE b

Abs(a) == IF a < 0 THEN -a ELSE a

\* `if (probe) score += w`
Pts(probe, w) == IF probe THEN w ELSE 0

\* `if (probe) score += w; else score += e`
PtsElse(probe, w, e) == IF probe THEN w ELSE e

Groups == {"transactionHistory", "portfolioManager", "display", "standards"}

SumGroups(b) == b.transactionHistory + b.portfolioManager + b.display + b.standards

\* --------------------------------------------------- analysis reports
\* The boolean probes of each group of the AnalysisReport, in source order.
\* Probes that a calculator weighs alike are kept together as one sequence.

\* database-config.js analyzeCodeStructure
strictFileProbes == <<"hasTransactionHistoryClass", "hasSeparateFile", "hasHeaderComments">>
fieldProbes == <<"hasTickerField", "hasTransDateField", "hasTransTypeField", "hasQtyField",
                 "hasCostBasisField">>
constructorProbes == <<"hasDefaultConstructor", "hasOverloadedConstructor">>
accessorProbes == <<"hasTickerGetter", "hasTickerSetter", "hasTransDateGetter",
                    "hasTransDateSetter", "hasTransTypeGetter", "hasTransTypeSetter",
                    "hasQtyGetter", "hasQtySetter", "hasCostBasisGetter", "hasCostBasisSetter">>
toStringProbes == <<"hasToStringMethod">>
structureProbes == <<"hasPortfolioManagerClass", "hasMainMethod">>
arrayListProbes == <<"hasArrayListAttribute", "hasArrayListInitialization">>
menuProbes == <<"hasMenuDisplay", "hasExitOption", "hasDepositOption", "hasWithdrawOption",
                "hasBuyOption", "hasSellOption", "hasHistoryOption", "hasPortfolioOption">>
logicProbes == <<"hasDepositLogic", "hasWithdrawLogic", "hasBuyLogic", "hasSellLogic",
                 "hasTransactionHistoryDisplay", "hasPortfolioDisplay">>
historyDisplayProbes == <<"hasNameInMenu", "hasNameInHistory", "hasHistoryHeader",
                          "hasHistoryTable", "hasHistoryFormatting">>
portfolioDisplayProbes == <<"hasPortfolioHeader", "hasPortfolioTable",
                            "hasPortfolioFormatting", "hasTimestamp">>
validationProbes == <<"hasTryCatch", "hasCashValidation", "hasWithdrawValidation",
                      "hasStockValidation">>
menuErrorProbes == <<"hasMenuErrorHandling">>
qualityProbes == <<"hasHeaderComments", "hasProperFormatting", "hasProperNaming">>
businessProbes == <<"hasCashTransactionLogic", "hasStockTransactionLogic",
                    "hasTickerCapitalization", "hasCostBasisLogic", "hasQuantityHandling",
                    "hasTransactionTypeHandling", "hasPortfolioCalculation",
                    "hasArrayListUsage">>

\* the probes calculateGrades reads, by weight
strictClasses ==
    { [group |-> "transactionHistory", probes |-> fieldProbes],
      [group |-> "transactionHistory", probes |-> constructorProbes],
      [group |-> "transactionHistory", probes |-> accessorProbes],
      [group |-> "transactionHistory", probes |-> toStringProbes],
      [group |-> "portfolioManager", probes |-> arrayListProbes],
      [group |-> "portfolioManager", probes |-> menuProbes],
      [group |-> "portfolioManager", probes |-> logicProbes],
      [group |-> "display", probes |-> historyDisplayProbes],
      [group |-> "display", probes |-> portfolioDisplayProbes],
      [group |-> "standards", probes |-> validationProbes],
      [group |-> "standards", probes |-> menuErrorProbes],
      [group |-> "standards", probes |-> qualityProbes],
      [group |-> "standards", probes |-> businessProbes] }

\* the probes of the report that calculateGrades never reads
strictUnscored ==
    { [group |-> "transactionHistory", probes |-> strictFileProbes],
      [group |-> "portfolioManager", probes |-> structureProbes] }

\* vercel-grader.js analyzeCodeStructure
lenientStructureProbes == <<"hasPortfolioManagerClass", "hasMainMethod",
                            "hasArrayListAttribute", "hasMenuDisplay">>
lenientMenuProbes == <<"hasExitOption", "hasDepositOption">>
lenientUnscoredProbes == <<"hasWithdrawOption", "hasBuyOption", "hasSellOption",
                           "hasHistoryOption", "hasPortfolioOption">>
lenientNameProbes == <<"hasNameInMenu", "hasNameInHistory">>
lenientHeaderProbes == <<"hasHistoryHeader", "hasPortfolioHeader">>
lenientQualityProbes == <<"hasTryCatch", "hasHeaderComments">>
lenientLogicProbes == <<"hasTickerCapitalization", "hasTransactionTypeHandling">>

\* the probes calculateGrades reads, by weight
lenientClasses ==
    { [group |-> "transactionHistory", probes |-> fieldProbes],
      [group |-> "transactionHistory", probes |-> constructorProbes],
      [group |-> "transactionHistory", probes |-> toStringProbes],
      [group |-> "portfolioManager", probes |-> lenientStructureProbes],
      [group |-> "portfolioManager", probes |-> lenientMenuProbes],
      [group |-> "display", probes |-> lenientNameProbes],
      [group |-> "display", probes |-> lenientHeaderProbes],
      [group |-> "standards", probes |-> lenientQualityProbes],
      [group |-> "standards", probes |-> lenientLogicProbes] }

\* the probes of the report that calculateGrades never reads
lenientUnscored ==
    { [group |-> "portfolioManager", probes |-> lenientUnscoredProbes] }

\* the analysis literal inside simulateGrading, which reads none of it
demoUnscored ==
    { [group |-> "transactionHistory", probes |-> fieldProbes],
      [group |-> "transactionHistory", probes |-> constructorProbes],
      [group |-> "transactionHistory", probes |-> toStringProbes],
      [group |-> "portfolioManager", probes |-> lenientStructureProbes],
      [group |-> "display", probes |-> lenientNameProbes],
      [group |-> "standards", probes |-> lenientQualityProbes] }

Variants == {"strict", "lenient", "demo"}

Classes(v) == CASE v = "strict" -> strictClasses
                [] v = "lenient" -> lenientClasses
                [] v = "demo" -> {}

Range(s) == {s[i] : i \in 1..Len(s)}

\* the (group, probe) pairs of the classes cs
PairsOf(cs) == UNION {{<<c.group, p>> : p \in Range(c.probes)} : c \in cs}

strictProbes == PairsOf(strictClasses)
lenientProbes == PairsOf(lenientClasses)
strictReportProbes == PairsOf(strictClasses \cup strictUnscored)
lenientReportProbes == PairsOf(lenientClasses \cup lenientUnscored)
demoReportProbes == PairsOf(demoUnscored)

\* the (group, probe) pairs that the calculator of variant v reads
Probes(v) == CASE v = "strict" -> strictProbes
               [] v = "lenient" -> lenientProbes
               [] v = "demo" -> {}

\* the (group, probe) pairs of the report of variant v
ReportProbes(v) == CASE v = "strict" -> strictReportProbes
                     [] v = "lenient" -> lenientReportProbes
                     [] v = "demo" -> demoReportProbes

\* the report of variant v in which every probe has the value b
UniformReport(v, b) ==
    [g \in Groups |-> [p \in {gp[2] : gp \in {q \in ReportProbes(v) : q[1] = g}} |-> b]]

\* how many of the probes that the calculator reads are true in report a
OnCount(v, a) == Cardinality({gp \in Probes(v) : a[gp[1]][gp[2]]})

\* how many leading probes of class c are true in report a
NumOn(a, c) == Cardinality({i \in 1..Len(c.probes) : a[c.group][c.probes[i]]})

\* ------------------------------------ strict calculator (database-config.js)
\* Retention factors, in thousandths.
strictReductionFactor == 800
strictExecutionReductionFactor == 950

\* TransactionHistory class: fields 1 each, constructors 2.5 each,
\* getters and setters 0.5 each, toString 5
strictTransactionHistoryScore(th) ==
      Pts(th.hasTickerField, 1000) + Pts(th.hasTransDateField, 1000)
    + Pts(th.hasTransTypeField, 1000) + Pts(th.hasQtyField, 1000)
    + Pts(th.hasCostBasisField, 1000)
    + Pts(th.hasDefaultConstructor, 2500) + Pts(th.hasOverloadedConstructor, 2500)
    + Pts(th.hasTickerGetter, 500) + Pts(th.hasTickerSetter, 500)
    + Pts(th.hasTransDateGetter, 500) + Pts(th.hasTransDateSetter, 500)
    + Pts(th.hasTransTypeGetter, 500) + Pts(th.hasTransTypeSetter, 500)
    + Pts(th.hasQtyGetter, 500) + Pts(th.hasQtySetter, 500)
    + Pts(th.hasCostBasisGetter, 500) + Pts(th.hasCostBasisSetter, 500)
    + Pts(th.hasToStringMethod, 5000)

\* PortfolioManager class: ArrayList 2.5 + 2.5, menu 1.25 each, logic 1.67 each
strictPortfolioManagerScore(pm) ==
      Pts(pm.hasArrayListAttribute, 2500) + Pts(pm.hasArrayListInitialization, 2500)
    + Pts(pm.hasMenuDisplay, 1250) + Pts(pm.hasExitOption, 1250)
    + Pts(pm.hasDepositOption, 1250) + Pts(pm.hasWithdrawOption, 1250)
    + Pts(pm.hasBuyOption, 1250) + Pts(pm.hasSellOption, 1250)
    + Pts(pm.hasHistoryOption, 1250) + Pts(pm.hasPortfolioOption, 1250)
    + Pts(pm.hasDepositLogic, 1670) + Pts(pm.hasWithdrawLogic, 1670)
    + Pts(pm.hasBuyLogic, 1670) + Pts(pm.hasSellLogic, 1670)
    + Pts(pm.hasTransactionHistoryDisplay, 1670) + Pts(pm.hasPortfolioDisplay, 1670)

\* Display requirements: history display 2.5 each, portfolio display 3.125 each
strictDisplayScore(disp) ==
      Pts(disp.hasNameInMenu, 2500) + Pts(disp.hasNameInHistory, 2500)
    + Pts(disp.hasHistoryHeader, 2500) + Pts(disp.hasHistoryTable, 2500)
    + Pts(disp.hasHistoryFormatting, 2500)
    + Pts(disp.hasPortfolioHeader, 3125) + Pts(disp.hasPortfolioTable, 3125)
    + Pts(disp.hasPortfolioFormatting, 3125) + Pts(disp.hasTimestamp, 3125)

\* the same, with the "light penalty" for missing menu error handling
\* taken as 2 points instead of 0.2
strictStandardsScore_HeavyPenalty(std) ==
      Pts(std.hasTryCatch, 1600)
    + PtsElse(std.hasMenuErrorHandling, 1600, -2000)
    + Pts(std.hasCashValidation, 1600) + Pts(std.hasWithdrawValidation, 1600)
    + Pts(std.hasStockValidation, 1600)
    + Pts(std.hasHeaderComments, 2330) + Pts(std.hasProperFormatting, 2330)
    + Pts(std.hasProperNaming, 2330)
    + Pts(std.hasCashTransactionLogic, 1250) + Pts(std.hasStockTransactionLogic, 1250)
    + Pts(std.hasTickerCapitalization, 1250) + Pts(std.hasCostBasisLogic, 1250)
    + Pts(std.hasQuantityHandling, 1250) + Pts(std.hasTransactionTypeHandling, 1250)
    + Pts(std.hasPortfolioCalculation, 1250) + Pts(std.hasArrayListUsage, 1250)

\* Coding and testing standards: error handling 1.6 each (menu error handling
\* 1.6 or -0.2), code quality 2.33 each, business logic 1.25 each
strictStandardsScore(std) ==
      Pts(std.hasTryCatch, 1600)
    + PtsElse(std.hasMenuErrorHandling, 1600, -200)
    + Pts(std.hasCashValidation, 1600) + Pts(std.hasWithdrawValidation, 1600)
    + Pts(std.hasStockValidation, 1600)
    + Pts(std.hasHeaderComments, 2330) + Pts(std.hasProperFormatting, 2330)
    + Pts(std.hasProperNaming, 2330)
    + Pts(std.hasCashTransactionLogic, 1250) + Pts(std.hasStockTransactionLogic, 1250)
    + Pts(std.hasTickerCapitalization, 1250) + Pts(std.hasCostBasisLogic, 1250)
    + Pts(std.hasQuantityHandling, 1250) + Pts(std.hasTransactionTypeHandling, 1250)
    + Pts(std.hasPortfolioCalculation, 1250) + Pts(std.hasArrayListUsage, 1250)

\* the four category scores before rounding, in thousandths
strictRawScores(a) ==
    [transactionHistory |-> strictTransactionHistoryScore(a.transactionHistory),
     portfolioManager |-> strictPortfolioManagerScore(a.portfolioManager),
     display |-> strictDisplayScore(a.display),
     standards |-> strictStandardsScore(a.standards)]

\* `breakdown.x = Math.round(xScore)` for the four categories
RoundedBreakdown(raw) == [g \in Groups |-> Round(raw[g], 1000)]

\* One penalty block: every category is multiplied by the factor and rounded
\* again, and so is totalScore (thousandths in, thousandths out).
ApplyFactor(st, factor) ==
    [breakdown |-> [g \in Groups |-> Round(st.breakdown[g] * factor, 1000)],
     totalScore |-> 1000 * Round(st.totalScore * factor, 1000000)]

\* the penalty blocks with the two factors exchanged
strictPenalized_Swapped(st, cs, es) ==
    IF ~cs THEN ApplyFactor(st, strictExecutionReductionFactor)
    ELSE IF ~es THEN ApplyFactor(st, strictReductionFactor)
    ELSE st

\* `if (!compilationSuccess) {...}` then
\* `if (compilationSuccess && !executionSuccess) {...}`
strictPenalized(st, cs, es) ==
    IF ~cs THEN ApplyFactor(st, strictReductionFactor)
    ELSE IF ~es THEN ApplyFactor(st, strictExecutionReductionFactor)
    ELSE st

\* the state of calculateGrades after the penalty blocks
strictBeforeAdjustment(a, cs, es) ==
    LET raw == strictRawScores(a)
    IN  strictPenalized([breakdown |-> RoundedBreakdown(raw), totalScore |-> SumGroups(raw)],
                        cs, es)

\* `Math.min(100, Math.round(totalScore))`
FinalTotal(totalScore) == Min(100, Round(totalScore, 1000))

\* `Math.abs(individualTotal - finalTotal) > 1`
strictNeedsAdjustment(a, cs, es) ==
    LET st == strictBeforeAdjustment(a, cs, es)
    IN  Abs(SumGroups(st.breakdown) - FinalTotal(st.totalScore)) > 1

\* `Math.round(breakdown.x * adjustmentFactor)`; a zero individualTotal makes
\* the factor infinite and the product NaN, shown here as -1
Adjusted(b, finalTotal, individualTotal) ==
    IF individualTotal = 0 THEN -1 ELSE Round(b * finalTotal, individualTotal)

\* calculateGrades with totalScore kept across calls: the sum starts from the
\* total of the previous call instead of 0
strictCalculateGrades_Carry(a, cs, es) ==
    LET raw == strictRawScores(a)
        st == strictPenalized([breakdown |-> RoundedBreakdown(raw),
                               totalScore |-> grades.total * 1000 + SumGroups(raw)], cs, es)
        finalTotal == FinalTotal(st.totalScore)
        individualTotal == SumGroups(st.breakdown)
        b == IF Abs(individualTotal - finalTotal) > 1
             THEN [g \in Groups |-> Adjusted(st.breakdown[g], finalTotal, individualTotal)]
             ELSE st.breakdown
    IN  [transactionHistory |-> b.transactionHistory,
         portfolioManager |-> b.portfolioManager,
         display |-> b.display,
         standards |-> b.standards,
         total |-> finalTotal]

\* calculateGrades(analysis, compilationSuccess, executionSuccess, testResults);
\* testResults is never read
strictCalculateGrades(a, cs, es) ==
    LET st == strictBeforeAdjustment(a, cs, es)
        finalTotal == FinalTotal(st.totalScore)
        individualTotal == SumGroups(st.breakdown)
        b == IF Abs(individualTotal - finalTotal) > 1
             THEN [g \in Groups |-> Adjusted(st.breakdown[g], finalTotal, individualTotal)]
             ELSE st.breakdown
    IN  [transactionHistory |-> b.transactionHistory,
         portfolioManager |-> b.portfolioManager,
         display |-> b.display,
         standards |-> b.standards,
         total |-> finalTotal]

\* ------------------------------------- lenient calculator (vercel-grader.js)
lenientReductionFactor == 900
lenientExecutionReductionFactor == 980

\* fields 1 (else 0.7), constructors 2.5 (else 1.5), toString 5 (else 3),
\* plus 8 flat points for getters and setters
lenientTransactionHistoryScore(th) ==
      PtsElse(th.hasTickerField, 1000, 700) + PtsElse(th.hasTransDateField, 1000, 700)
    + PtsElse(th.hasTransTypeField, 1000, 700) + PtsElse(th.hasQtyField, 1000, 700)
    + PtsElse(th.hasCostBasisField, 1000, 700)
    + PtsElse(th.hasDefaultConstructor, 2500, 1500)
    + PtsElse(th.hasOverloadedConstructor, 2500, 1500)
    + PtsElse(th.hasToStringMethod, 5000, 3000)
    + 8000

lenientPortfolioManagerScore(pm) ==
      PtsElse(pm.hasPortfolioManagerClass, 5000, 3000)
    + PtsElse(pm.hasMainMethod, 5000, 3000)
    + PtsElse(pm.hasArrayListAttribute, 5000, 3000)
    + PtsElse(pm.hasMenuDisplay, 5000, 3000)
    + PtsElse(pm.hasExitOption, 2500, 1500)
    + PtsElse(pm.hasDepositOption, 2500, 1500)

lenientDisplayScore(disp) ==
      PtsElse(disp.hasNameInMenu, 8000, 5000) + PtsElse(disp.hasNameInHistory, 8000, 5000)
    + PtsElse(disp.hasHistoryHeader, 4500, 3000)
    + PtsElse(disp.hasPortfolioHeader, 4500, 3000)

lenientStandardsScore(std) ==
      PtsElse(std.hasTryCatch, 8000, 5000) + PtsElse(std.hasHeaderComments, 8000, 5000)
    + PtsElse(std.hasTickerCapitalization, 4500, 3000)
    + PtsElse(std.hasTransactionTypeHandling, 4500, 3000)

lenientRawScores(a) ==
    [transactionHistory |-> lenientTransactionHistoryScore(a.transactionHistory),
     portfolioManager |-> lenientPortfolioManagerScore(a.portfolioManager),
     display |-> lenientDisplayScore(a.display),
     standards |-> lenientStandardsScore(a.standards)]

lenientPenalized(st, cs, es) ==
    IF ~cs THEN ApplyFactor(st, lenientReductionFactor)
    ELSE IF ~es THEN ApplyFactor(st, lenientExecutionReductionFactor)
    ELSE st

\* calculateGrades of vercel-grader.js: no adjustment step
lenientCalculateGrades(a, cs, es) ==
    LET raw == lenientRawScores(a)
        st == lenientPenalized([breakdown |-> RoundedBreakdown(raw),
                                totalScore |-> SumGroups(raw)], cs, es)
    IN  [transactionHistory |-> st.breakdown.transactionHistory,
         portfolioManager |-> st.breakdown.portfolioManager,
         display |-> st.breakdown.display,
         standards |-> st.breakdown.standards,
         total |-> FinalTotal(st.totalScore)]

\* ------------------------------------------ demo mode (simulateGrading)
\* `Math.floor(Math.random() * 10)`
RandomDigits == 0..9

\* `Math.min(25, Math.floor(Math.random() * 10) + 20)`
demoCategoryScores == {Min(25, r + 20) : r \in RandomDigits}

\* the grades simulateGrading can return: four independent draws and their sum
simulateGrading ==
    {[transactionHistory |-> th, portfolioManager |-> pm, display |-> d, standards |-> s,
      total |-> th + pm + d + s] :
        th \in demoCategoryScores, pm \in demoCategoryScores,
        d \in demoCategoryScores, s \in demoCategoryScores}

\* ------------------------------------------------- grading state machine
\* the grades a grade-computing path can return for one input
GradesOf(v, a, cs, es) ==
    CASE v = "strict" -> {strictCalculateGrades(a, cs, es)}
      [] v = "lenient" -> {lenientCalculateGrades(a, cs, es)}
      [] v = "demo" -> simulateGrading

NoGrades == [transactionHistory |-> 0, portfolioManager |-> 0, display |-> 0,
             standards |-> 0, total |-> 0]

\* values of the adapter's variables while no compileAndRun call is under way
JsUndefined == [type |-> "undefined", num |-> 0, str |-> <<>>]

NoResponse == [kind |-> "none", statusCode |-> JsUndefined, output |-> JsUndefined]

NoResult == [success |-> FALSE, compilationSuccess |-> FALSE, executionSuccess |-> FALSE,
             compilationErrors |-> "", executionOutput |-> <<>>, testResults |-> <<>>]

\* values of the upload handler's variables while no upload is under way
PipelineIdle ==
    /\ studentName = ""
    /\ compilationErrors = ""
    /\ executionOutput = <<>>
    /\ testResults = <<>>
    /\ feedback = <<>>
    /\ stage = "idle"

\* the stores at server start, with no request
\* no request handled yet
NoReply == [route |-> "", cookie |-> 0, status |-> 0, data |-> FALSE, username |-> "",
            password |-> ""]

StoreIdle ==
    /\ submissions = <<>>
    /\ students = <<>>
    /\ requests = <<>>
    /\ now = 0
    /\ reply = NoReply
    /\ sessions = <<>>
    /\ professors = <<>>
    /\ rows = <<>>
    /\ updates = <<>>

AdapterIdle ==
    /\ transactionContent = <<>>
    /\ portfolioContent = <<>>
    /\ pc = "idle"
    /\ serviceIdx = 0
    /\ response = NoResponse
    /\ calls = <<>>
    /\ result = NoResult

\* The reports the model grades: of the probes the calculator reads, at most
\* MaxOn are true or at most MaxOff are false.  The probes it never reads keep
\* the value they have in the first report.
InBounds(v, a) ==
    LET n == OnCount(v, a)
    IN  \/ n <= MaxOn
        \/ Cardinality(Probes(v)) - n <= MaxOff

GradeInit ==
    /\ variant \in Variants
    /\ analysis \in {UniformReport(variant, FALSE), UniformReport(variant, TRUE)}
    /\ compilationSuccess \in (IF variant = "demo" THEN {TRUE} ELSE BOOLEAN)
    /\ executionSuccess \in (IF variant = "demo" THEN {TRUE} ELSE BOOLEAN)
    /\ grades = NoGrades
    /\ runs = 0
    /\ AdapterIdle
    /\ PipelineIdle
    /\ StoreIdle

\* the calculator is called on the current input, for the first or the second time
Grade ==
    /\ runs < 2
    /\ runs' = runs + 1
    /\ grades' \in GradesOf(variant, analysis, compilationSuccess, executionSuccess)
    /\ UNCHANGED <<variant, analysis, compilationSuccess, executionSuccess>>
    /\ UNCHANGED <<adapterVars, pipelineVars, storeVars>>

\* The next input differs from the graded one in one probe, which is now true.
\* Within a class of probes that the calculator weighs alike the probes are
\* switched on in source order; simulateGrading never reads its report.
FlipOn(c) ==
    /\ runs >= 1
    /\ variant # "demo"
    /\ NumOn(analysis, c) < Len(c.probes)
    /\ LET p == c.probes[NumOn(analysis, c) + 1]
           a == [analysis EXCEPT ![c.group][p] = TRUE]
       IN  /\ InBounds(variant, a)
           /\ analysis' = a
           /\ grades' \in GradesOf(variant, a, compilationSuccess, executionSuccess)
    /\ runs' = 1
    /\ UNCHANGED <<variant, compilationSuccess, executionSuccess>>
    /\ UNCHANGED <<adapterVars, pipelineVars, storeVars>>

\* the next input differs from the graded one in one probe, which is now false
FlipOff(c) ==
    /\ runs >= 1
    /\ variant # "demo"
    /\ NumOn(analysis, c) > 0
    /\ LET p == c.probes[NumOn(analysis, c)]
           a == [analysis EXCEPT ![c.group][p] = FALSE]
       IN  /\ InBounds(variant, a)
           /\ analysis' = a
           /\ grades' \in GradesOf(variant, a, compilationSuccess, executionSuccess)
    /\ runs' = 1
    /\ UNCHANGED <<variant, compilationSuccess, executionSuccess>>
    /\ UNCHANGED <<adapterVars, pipelineVars, storeVars>>

\* the next input has the same report and another compile/run outcome
SetOutcome(cs, es) ==
    /\ runs >= 1
    /\ variant # "demo"
    /\ <<cs, es>> # <<compilationSuccess, executionSuccess>>
    /\ compilationSuccess' = cs
    /\ executionSuccess' = es
    /\ grades' \in GradesOf(variant, analysis, cs, es)
    /\ runs' = 1
    /\ UNCHANGED <<variant, analysis>>
    /\ UNCHANGED <<adapterVars, pipelineVars, storeVars>>

GradeNext ==
    \/ Grade
    \/ \E c \in Classes(variant) : FlipOn(c)
    \/ \E c \in Classes(variant) : FlipOff(c)
    \/ \E cs \in BOOLEAN, es \in BOOLEAN : SetOutcome(cs, es)

GradeSpec == GradeInit /\ [][GradeNext]_vars

\* ------------------------------------------------- grading: properties
Calculators == {"strict", "lenient"}

Graded == runs >= 1

\* group g of the report goes from a to b by one probe turning from false to true
FlippedOn(a, b, g) ==
    \E p \in DOMAIN a[g] : /\ a[g][p] = FALSE
                           /\ b = [a EXCEPT ![g][p] = TRUE]

\* C1: for every report and every compile/run outcome, the four category
\* scores returned by calculateGrades (strict and lenient) add up to the total.
C1_SumEqualsTotal ==
    (Graded /\ variant \in Calculators) => SumGroups(grades) = grades.total

\* C2: calculateGrades (strict and lenient) returns every category score in
\* 0..25 and the total in 0..100, whatever the probes, penalty and adjustment.
C2_ScoresInRange ==
    (Graded /\ variant \in Calculators) =>
        /\ \A g \in Groups : grades[g] \in 0..25
        /\ grades.total \in 0..100

\* a strict grade on which a penalty and the proportional adjustment both acted
C2_Witness ==
    /\ Graded
    /\ variant = "strict"
    /\ ~compilationSuccess
    /\ strictNeedsAdjustment(analysis, compilationSuccess, executionSuccess)
    /\ grades.total > 0

\* C3: with every probe true and compilation and execution successful,
\* calculateGrades returns 25 in each of the four categories and a total of 100.
C3_PerfectScore ==
    (/\ Graded
     /\ variant \in Calculators
     /\ analysis = UniformReport(variant, TRUE)
     /\ compilationSuccess
     /\ executionSuccess)
    => grades = [transactionHistory |-> 25, portfolioManager |-> 25, display |-> 25,
                 standards |-> 25, total |-> 100]

\* C4: with the compile/run outcome fixed, turning one probe of the report from
\* false to true never lowers the strict calculator's final score of the
\* category the probe belongs to.
C4_Monotone ==
    [][\A g \in Groups :
          (/\ Graded
           /\ variant = "strict"
           /\ variant' = variant
           /\ compilationSuccess' = compilationSuccess
           /\ executionSuccess' = executionSuccess
           /\ FlippedOn(analysis, analysis', g))
          => grades'[g] >= grades[g]]_vars

\* C5: for a fixed report, the total returned with compilationSuccess = FALSE
\* is at most the total returned with compilationSuccess = TRUE, for either
\* value of executionSuccess (strict and lenient).
C5_CompilationFailureDominated ==
    [][(/\ Graded
        /\ variant \in Calculators
        /\ variant' = variant
        /\ analysis' = analysis
        /\ executionSuccess' = executionSuccess
        /\ compilationSuccess' # compilationSuccess)
       => IF compilationSuccess
          THEN grades'.total <= grades.total
          ELSE grades.total <= grades'.total]_vars

\* a strict grade after a failed compilation that is lower than the grade of
\* the same report after a successful one
C5_Witness ==
    /\ Graded
    /\ variant = "strict"
    /\ ~compilationSuccess
    /\ grades.total < strictCalculateGrades(analysis, TRUE, executionSuccess).total

\* a step in which the same input is graded again
SameInput ==
    /\ Graded
    /\ variant' = variant
    /\ analysis' = analysis
    /\ compilationSuccess' = compilationSuccess
    /\ executionSuccess' = executionSuccess

ClassLine == "class PortfolioManager {"
FieldLine == "private double qty;"
CloseLine == "}"
MainLine == "public static void main(String[] args) { run(); }"
ErrorLine == "System.out.println(\"Invalid input\");"

Lines == {ClassLine, FieldLine, CloseLine, MainLine, ErrorLine}

Texts == UNION {[1..n -> Lines] : n \in 0..MaxTextLen}

\* the regular expression matches inside one of these lines
MatchesLine(text, matching) == \E i \in 1..Len(text) : text[i] \in matching

\* /class\s+\w+/
hasClass(content) == MatchesLine(content, {ClassLine})

\* /;/
hasSemicolons(content) == MatchesLine(content, {FieldLine, MainLine, ErrorLine})

\* /\{[\s\S]*\}/ : an opening brace with a closing brace anywhere after it,
\* on the same line or on a later one
hasBraces(content) ==
    \/ MatchesLine(content, {MainLine})
    \/ \E i, j \in 1..Len(content) : /\ i < j
                                     /\ content[i] \in {ClassLine, MainLine}
                                     /\ content[j] \in {CloseLine, MainLine}

\* /public|private|static|void|String|double|int|boolean/ ("println" holds "int")
hasValidKeywords(content) == MatchesLine(content, {FieldLine, MainLine, ErrorLine})

\* /public\s+static\s+void\s+main\s*\(/
hasMainMethodText(content) == MatchesLine(content, {MainLine})

\* checkJavaSyntax(content)
checkJavaSyntax(content) ==
    hasClass(content) /\ hasSemicolons(content) /\ hasBraces(content)
        /\ hasValidKeywords(content)

\* ------------------------------------------------ analyzeCodeStructure
\* req.body.studentName: empty, an unbalanced parenthesis, a word of the
\* field line, a word of no line
StudentNames == {"", "(", "qty", "Ann"}

\* new RegExp(studentName, 'i') throws a SyntaxError
InvalidRegExp(name) == name = "("

\* new RegExp(studentName, 'i').test(text); the empty pattern matches every
\* text, the empty one too
NameTest(name, text) ==
    CASE name = "" -> TRUE
      [] name = "qty" -> MatchesLine(text, {FieldLine})
      [] OTHER -> FALSE

\* The lines each regular expression of the analyzers matches; an expression
\* not listed here matches none of Lines.
\* /private\s+double\s+qty/i
qtyFieldLines == {FieldLine}
\* /class\s+PortfolioManager/i
portfolioManagerClassLines == {ClassLine}
\* /invalid.*input|error.*message/i
menuErrorHandlingLines == {ErrorLine}
\* /public\s+class|private\s+\w+|public\s+\w+/
properFormattingLines == {FieldLine, MainLine}
\* /[A-Z][a-zA-Z]*/
properNamingLines == {ClassLine, MainLine, ErrorLine}
\* /quantity|qty/i
quantityHandlingLines == {FieldLine}

\* the value of probe p of group g for the texts t (TransactionHistory.java)
\* and pm (PortfolioManager.java) and the student name; both analyzers use the
\* same expressions for the probes they share, but hasHeaderComments of
\* standards reads both texts in database-config.js
ProbeValue(g, p, t, pm, name) ==
    CASE g = "transactionHistory" /\ p = "hasSeparateFile" -> Len(t) > 0
      [] g = "transactionHistory" /\ p = "hasQtyField" -> MatchesLine(t, qtyFieldLines)
      [] g = "portfolioManager" /\ p = "hasPortfolioManagerClass" ->
            MatchesLine(pm, portfolioManagerClassLines)
      [] g = "portfolioManager" /\ p = "hasMainMethod" -> hasMainMethodText(pm)
      [] g = "display" /\ p \in {"hasNameInMenu", "hasNameInHistory"} -> NameTest(name, pm)
      [] g = "standards" /\ p = "hasMenuErrorHandling" ->
            MatchesLine(pm, menuErrorHandlingLines)
      [] g = "standards" /\ p = "hasProperFormatting" ->
            MatchesLine(t, properFormattingLines) /\ MatchesLine(pm, properFormattingLines)
      [] g = "standards" /\ p = "hasProperNaming" ->
            MatchesLine(t, properNamingLines) /\ MatchesLine(pm, properNamingLines)
      [] g = "standards" /\ p = "hasQuantityHandling" ->
            MatchesLine(pm, quantityHandlingLines)
      [] OTHER -> IF g = "transactionHistory" THEN MatchesLine(t, {})
                  ELSE MatchesLine(pm, {})

\* the probe names of group g in the report of variant v
ProbeKeys(v, g) == {gp[2] : gp \in {q \in ReportProbes(v) : q[1] = g}}

\* analyzeCodeStructure(transactionContent, portfolioContent, studentName) of
\* database-config.js ("strict") and of vercel-grader.js ("lenient"): the
\* report, or the SyntaxError of new RegExp(studentName, 'i').  The numbers
\* of fileAnalysis are left out of the report.
analyzeCodeStructure(v, t, pm, name) ==
    IF InvalidRegExp(name)
    THEN [threw |-> TRUE, message |-> "Invalid regular expression", report |-> <<>>]
    ELSE [threw |-> FALSE, message |-> "",
          report |-> [g \in Groups |->
                        [p \in ProbeKeys(v, g) |-> ProbeValue(g, p, t, pm, name)]]]

\* ------------------------------------------------------------ transcripts
\* An output text is a sequence of fragments; the empty sequence is ''.
ErrorFragment == "error: ';' expected"
ExceptionFragment == "Exception in thread \"main\" java.lang.NullPointerException"
MenuFragment == "Enter option (0 to 6): "
NameFragment == "Student Name: Test Student"
MenuBanner == "Java Portfolio Manager ... 0 - Exit ... Enter option (0 to 6): "
StudentBlock == "Student Name: Test Student Email: test@example.com"
HistoryBlock == "Transaction History: Date Ticker Quantity Cost Basis Trans Type ..."
PortfolioBlock == "Portfolio as of: <now> Ticker Quantity CASH 5000.00 IBM 20.00"
SuccessFooter == "Program executed successfully! Compilation: SUCCESS Execution: SUCCESS Output generated: <now>"
NoOutput == "No output"
CompilationFailedText == "Compilation failed: Invalid Java syntax or missing main method"

\* output.includes(...) and regex.test(output), fragment by fragment
Includes(output, matching) == \E i \in 1..Len(output) : output[i] \in matching

\* fragments of what the student's program prints: a line break, its echo
\* of the scripted input 'abc'; and the message of a failed exec
Newline == "\n"
AbcFragment == "abc"
CommandFailedFragment == "Command failed: java -cp uploads PortfolioManager < test_input.txt"

StdoutFragments == {Newline, MenuFragment, ErrorFragment, AbcFragment}

\* what a run can print
Transcripts == UNION {[1..n -> StdoutFragments] : n \in 0..MaxTranscriptLen}

IsWhitespace(fragment) == fragment = Newline

\* String.prototype.trim: without the white space at either end
RECURSIVE TrimStart(_)
TrimStart(output) ==
    IF output # <<>> /\ IsWhitespace(Head(output)) THEN TrimStart(Tail(output))
    ELSE output

RECURSIVE TrimEnd(_)
TrimEnd(output) ==
    IF output # <<>> /\ IsWhitespace(output[Len(output)])
    THEN TrimEnd(SubSeq(output, 1, Len(output) - 1))
    ELSE output

Trim(output) == TrimEnd(TrimStart(output))

\* analyzeExecutionOutput(output, analysis) of database-config.js; none of the
\* fragments matches /transaction|history|record/i, /portfolio|balance|total|value/i
\* or /insufficient|funds|required|available/i, or holds '150000'
analyzeExecutionOutput(output) ==
    << [name |-> "Compilation Test",
        success |-> TRUE,
        description |-> "Java files compile without errors"],
       [name |-> "Execution Test",
        success |-> Len(output) > 0,
        description |-> "Program runs and produces output"],
       [name |-> "Menu Display Test",
        success |-> Includes(output, {MenuFragment}),
        description |-> "Menu system is displayed"],
       [name |-> "Transaction History Test",
        success |-> Includes(output, {}),
        description |-> "Transaction history functionality works"],
       [name |-> "Portfolio Display Test",
        success |-> Includes(output, {}),
        description |-> "Portfolio information is displayed"],
       [name |-> "User Input Test",
        success |-> Includes(output, {MenuFragment}),
        description |-> "Program accepts user input"],
       [name |-> "Error Handling Test",
        success |-> Includes(output, {ErrorFragment}) /\ Includes(output, {AbcFragment}),
        description |-> "Program handles invalid input (abc) with proper error message"],
       [name |-> "Insufficient Funds Test",
        success |-> Includes(output, {}) /\ Includes(output, {}),
        description |-> "Program validates insufficient funds for large purchases"] >>

\* analyzeOutput(output)
analyzeOutput(output) ==
    << [name |-> "Compilation Test",
        success |-> /\ ~Includes(output, {ErrorFragment})
                    /\ ~Includes(output, {ExceptionFragment}),
        description |-> "Java files compiled without errors"],
       [name |-> "Execution Test",
        success |-> /\ Len(output) > 0
                    /\ ~Includes(output, {ExceptionFragment}),
        description |-> "Program executed successfully"],
       [name |-> "Menu Display Test",
        success |-> Includes(output, {MenuFragment, MenuBanner}),
        description |-> "Menu system displayed correctly"],
       [name |-> "Student Name Test",
        success |-> Includes(output, {NameFragment, StudentBlock}),
        description |-> "Student information displayed"] >>

\* generateRealisticOutput(portfolioContent): template blocks keyed by what
\* the text mentions.  Of the lines above only the class line mentions
\* "portfolio"; none mentions a menu, a student name or a transaction history.
\* The two time stamps of the transcript are written <now>.
generateRealisticOutput(content) ==
    LET hasMenu == MatchesLine(content, {})                  \* /menu|choice|option/i
        hasStudentName == MatchesLine(content, {})           \* /studentName|student.*name/i
        hasTransactionHistory == MatchesLine(content, {})    \* /transaction.*history|.../i
        hasPortfolio == MatchesLine(content, {ClassLine})    \* /portfolio/i
    IN     (IF hasMenu THEN <<MenuBanner>> ELSE <<>>)
        \o (IF hasStudentName THEN <<StudentBlock>> ELSE <<>>)
        \o (IF hasTransactionHistory THEN <<HistoryBlock>> ELSE <<>>)
        \o (IF hasPortfolio THEN <<PortfolioBlock>> ELSE <<>>)
        \o <<SuccessFooter>>

\* fallbackCompilation that fails whatever the texts are
fallbackCompilation_HardFailure(transaction, portfolio) ==
    [success |-> FALSE,
     compilationSuccess |-> FALSE,
     executionSuccess |-> FALSE,
     compilationErrors |-> "Simulated compilation error",
     executionOutput |-> <<CompilationFailedText>>,
     testResults |-> <<[name |-> "Compilation Error", success |-> FALSE,
                        description |-> "Invalid Java syntax or missing main method"]>>]

\* fallbackCompilation that reports a failed compilation with an empty error text
fallbackCompilation_NoErrorText(transaction, portfolio) ==
    LET hasValidSyntax == checkJavaSyntax(transaction) /\ checkJavaSyntax(portfolio)
        hasMainMethod == hasMainMethodText(portfolio)
        hasClasses == hasClass(transaction) /\ hasClass(portfolio)
        ok == hasValidSyntax /\ hasMainMethod /\ hasClasses
        simulatedOutput == IF ok THEN generateRealisticOutput(portfolio)
                           ELSE <<CompilationFailedText>>
    IN  [success |-> ok,
         compilationSuccess |-> ok,
         executionSuccess |-> ok,
         compilationErrors |-> "",
         executionOutput |-> simulatedOutput,
         testResults |-> IF ok THEN analyzeOutput(simulatedOutput)
                         ELSE <<[name |-> "Compilation Error", success |-> FALSE,
                                 description |-> "Invalid Java syntax or missing main method"]>>]
\* fallbackCompilation that simulates a run whether or not the files compile
fallbackCompilation_AlwaysRuns(transaction, portfolio) ==
    LET hasValidSyntax == checkJavaSyntax(transaction) /\ checkJavaSyntax(portfolio)
        hasMainMethod == hasMainMethodText(portfolio)
        hasClasses == hasClass(transaction) /\ hasClass(portfolio)
        ok == hasValidSyntax /\ hasMainMethod /\ hasClasses
        simulatedOutput == generateRealisticOutput(portfolio)
    IN  [success |-> ok,
         compilationSuccess |-> ok,
         executionSuccess |-> TRUE,
         compilationErrors |-> IF ok THEN "" ELSE "Simulated compilation error",
         executionOutput |-> simulatedOutput,
         testResults |-> analyzeOutput(simulatedOutput)]

\* fallbackCompilation(transactionContent, portfolioContent)
fallbackCompilation(transaction, portfolio) ==
    LET hasValidSyntax == checkJavaSyntax(transaction) /\ checkJavaSyntax(portfolio)
        hasMainMethod == hasMainMethodText(portfolio)
        hasClasses == hasClass(transaction) /\ hasClass(portfolio)
        ok == hasValidSyntax /\ hasMainMethod /\ hasClasses
        simulatedOutput == IF ok THEN generateRealisticOutput(portfolio)
                           ELSE <<CompilationFailedText>>
    IN  [success |-> ok,
         compilationSuccess |-> ok,
         executionSuccess |-> ok,
         compilationErrors |-> IF ok THEN "" ELSE "Simulated compilation error",
         executionOutput |-> simulatedOutput,
         testResults |-> IF ok THEN analyzeOutput(simulatedOutput)
                         ELSE <<[name |-> "Compilation Error", success |-> FALSE,
                                 description |-> "Invalid Java syntax or missing main method"]>>]

\* ------------------------------------------------------ generateFeedback
\* A feedback line: the section it belongs to, what it is about, its verdict
\* mark, and the text or the number it carries.
Line(section, about, verdict) ==
    [section |-> section, about |-> about, verdict |-> verdict, text |-> <<>>, num |-> 0]

TextLine(section, about, verdict, text) ==
    [section |-> section, about |-> about, verdict |-> verdict, text |-> text, num |-> 0]

ScoreLine(section, about, n) ==
    [section |-> section, about |-> about, verdict |-> "", text |-> <<>>, num |-> n]

Found(b) == IF b THEN "ok" ELSE "missing"

\* one found/missing line per probe of the list
ProbeLines(section, a, g, probes) ==
    [i \in 1..Len(probes) |-> Line(section, probes[i], Found(a[g][probes[i]]))]

\* one line per getter/setter pair: found, partially implemented, missing
AccessorLines(a) ==
    [i \in 1..(Len(accessorProbes) \div 2) |->
        LET getter == a.transactionHistory[accessorProbes[2 * i - 1]]
            setter == a.transactionHistory[accessorProbes[2 * i]]
        IN  Line("transactionHistory", accessorProbes[2 * i - 1],
                 IF getter /\ setter THEN "ok"
                 ELSE IF getter \/ setter THEN "partial" ELSE "missing")]

\* `✅/❌ name: description` per TestResult, under a heading
TestLines(tests) ==
    IF Len(tests) > 0
    THEN <<Line("tests", "heading", "")>>
         \o [i \in 1..Len(tests) |->
                TextLine("tests", tests[i].name, Found(tests[i].success),
                         <<tests[i].description>>)]
    ELSE <<>>

\* compilation errors of more than 200 characters
LongCompilationError == "PortfolioManager.java:1: error: class, interface, or enum expected ... 37 errors"

\* the qualitative band of a total
Band(total) ==
    IF total >= 90 THEN "excellent"
    ELSE IF total >= 80 THEN "good"
    ELSE IF total >= 70 THEN "satisfactory"
    ELSE IF total >= 60 THEN "needs improvement"
    ELSE "significant improvements needed"

\* the line on menu input error handling, decided by the static probe
MenuErrorLine_FromProbe(a, tests) ==
    Line("standards", "menuErrorHandling", Found(a.standards.hasMenuErrorHandling))

\* the line on menu input error handling
MenuErrorLine(a, tests) ==
    LET hasWorkingMenuErrorHandling ==
            \E i \in 1..Len(tests) : tests[i].name = "Error Handling Test" /\ tests[i].success
    IN  Line("standards", "menuErrorHandling", Found(hasWorkingMenuErrorHandling))

\* the execution status, the grade breakdown and the band
ScoreSummary(g, es) ==
    <<Line("execution", "status", IF es THEN "ok" ELSE "failed"),
      Line("breakdown", "heading", ""),
      ScoreLine("breakdown", "transactionHistory", g.transactionHistory),
      ScoreLine("breakdown", "portfolioManager", g.portfolioManager),
      ScoreLine("breakdown", "display", g.display),
      ScoreLine("breakdown", "standards", g.standards),
      ScoreLine("breakdown", "total", g.total),
      Line("band", Band(g.total), "")>>

\* the fenced block of the program's output, when it is not blank
TrimmedOutputBlock(output) ==
    IF output # <<>> /\ Trim(output) # <<>>
    THEN <<Line("output", "heading", ""), Line("output", "fence", ""),
           TextLine("output", "body", "", Trim(output)), Line("output", "fence", "")>>
    ELSE <<>>

\* the end of the feedback with the output and the tests before the scores
OverallFeedback_ScoresLast(g, es, output, tests) ==
    TrimmedOutputBlock(output) \o TestLines(tests) \o ScoreSummary(g, es)

\* the end of the feedback: scores, then output, then tests
OverallFeedback(g, es, output, tests) ==
    ScoreSummary(g, es) \o TrimmedOutputBlock(output) \o TestLines(tests)

\* generateFeedback of database-config.js
strictGenerateFeedback(a, g, cs, es, errors, output, tests) ==
       (IF cs THEN <<Line("compilation", "status", "ok")>>
        ELSE <<TextLine("compilation", "status", "failed",
                        <<IF errors # "" THEN errors ELSE "Unknown compilation error">>)>>
             \o (IF errors = LongCompilationError
                 THEN <<TextLine("compilation", "details", "", <<errors>>)>> ELSE <<>>))
    \o <<Line("transactionHistory", "heading", "")>>
    \o ProbeLines("transactionHistory", a, "transactionHistory", fieldProbes)
    \o ProbeLines("transactionHistory", a, "transactionHistory", constructorProbes)
    \o AccessorLines(a)
    \o ProbeLines("transactionHistory", a, "transactionHistory", toStringProbes)
    \o <<Line("portfolioManager", "heading", ""),
         Line("portfolioManager", "portfolioList",
              Found(a.portfolioManager.hasArrayListAttribute
                    /\ a.portfolioManager.hasArrayListInitialization))>>
    \o ProbeLines("portfolioManager", a, "portfolioManager", Tail(menuProbes))
    \o ProbeLines("portfolioManager", a, "portfolioManager", logicProbes)
    \o <<Line("display", "heading", "")>>
    \o ProbeLines("display", a, "display",
                  <<"hasNameInMenu", "hasNameInHistory", "hasHistoryHeader",
                    "hasHistoryTable", "hasPortfolioHeader", "hasPortfolioTable">>)
    \o <<Line("standards", "heading", ""),
         Line("standards", "hasTryCatch", Found(a.standards.hasTryCatch)),
         MenuErrorLine(a, tests)>>
    \o ProbeLines("standards", a, "standards",
                  <<"hasCashValidation", "hasWithdrawValidation", "hasStockValidation",
                    "hasHeaderComments", "hasProperFormatting", "hasTickerCapitalization",
                    "hasTransactionTypeHandling", "hasArrayListUsage">>)
    \o OverallFeedback(g, es, output, tests)

\* generateFeedback of vercel-grader.js
lenientGenerateFeedback(a, g, cs, es, errors, output, tests) ==
       <<IF cs THEN Line("compilation", "status", "ok")
         ELSE TextLine("compilation", "status", "failed",
                       <<IF errors # "" THEN errors ELSE "Unknown error">>)>>
    \o <<Line("transactionHistory", "heading", ""),
         ScoreLine("transactionHistory", "score", g.transactionHistory),
         Line("portfolioManager", "heading", ""),
         ScoreLine("portfolioManager", "score", g.portfolioManager),
         Line("display", "heading", ""),
         ScoreLine("display", "score", g.display),
         Line("standards", "heading", ""),
         ScoreLine("standards", "score", g.standards),
         ScoreLine("breakdown", "total", g.total)>>
    \o (IF output # <<>>
        THEN <<Line("output", "heading", ""), Line("output", "fence", ""),
               TextLine("output", "body", "", output), Line("output", "fence", "")>>
        ELSE <<>>)
    \o TestLines(tests)
    \o <<Line("closing", "banner", "")>>

generateFeedback(v, a, g, cs, es, errors, output, tests) ==
    IF v = "strict" THEN strictGenerateFeedback(a, g, cs, es, errors, output, tests)
    ELSE lenientGenerateFeedback(a, g, cs, es, errors, output, tests)

\* ------------------------------------------------------ remote services
\* this.services, in order
services == <<"JDoodle", "CodeX">>

JsNumber(n) == [type |-> "number", num |-> n, str |-> <<>>]

JsString(t) == [type |-> "string", num |-> 0, str |-> t]

\* JavaScript truthiness of a value
Truthy(v) == CASE v.type = "undefined" -> FALSE
               [] v.type = "number" -> v.num # 0
               [] v.type = "string" -> v.str # <<>>

\* the output fields a response body can carry: none, a number, a text
RemoteOutputs ==
    {JsUndefined, JsNumber(0), JsNumber(42), JsString(<<>>), JsString(<<ErrorFragment>>),
     JsString(<<ExceptionFragment>>), JsString(<<MenuFragment>>),
     JsString(<<NameFragment>>)}

\* What a call of a remote service can end in: the request fails (network
\* error, timeout after 30 s, HTTP error status), the body is empty, or the
\* body is a JSON object with or without statusCode and output.
Responses ==
    {[kind |-> "error", statusCode |-> JsUndefined, output |-> JsUndefined],
     [kind |-> "empty", statusCode |-> JsUndefined, output |-> JsUndefined]}
    \cup {[kind |-> "json", statusCode |-> JsNumber(200), output |-> o] :
            o \in RemoteOutputs}
    \cup {[kind |-> "json", statusCode |-> c, output |-> o] :
            c \in {JsNumber(429), JsUndefined},
            o \in {JsUndefined, JsString(<<MenuFragment>>)}}

Threw(message) == [threw |-> TRUE, message |-> message, value |-> NoResult]

Returned(value) == [threw |-> FALSE, message |-> "", value |-> value]

\* tryService that accepts every response with a body
tryService_AnyStatus(service, resp) ==
    IF resp.kind = "error" THEN Threw("timeout of 30000ms exceeded")
    ELSE IF resp.kind = "json"
    THEN IF Truthy(resp.output) /\ resp.output.type # "string"
         THEN Threw("output.includes is not a function")
         ELSE Returned([success |-> TRUE,
                        compilationSuccess |-> TRUE,
                        executionSuccess |-> TRUE,
                        compilationErrors |-> "",
                        executionOutput |-> IF Truthy(resp.output) THEN resp.output.str
                                            ELSE <<NoOutput>>,
                        testResults |-> analyzeOutput(IF Truthy(resp.output)
                                                      THEN resp.output.str ELSE <<>>)])
    ELSE Threw("Service returned error: Unknown error")

\* tryService(service, ...) once axios has settled with resp: the result it
\* returns or the error it throws.  `response.data.output || ...` keeps a
\* truthy output of any type, and analyzeOutput throws on one without includes.
tryService(service, resp) ==
    IF resp.kind = "error" THEN Threw("timeout of 30000ms exceeded")
    ELSE IF resp.kind = "json" /\ resp.statusCode = JsNumber(200)
    THEN IF Truthy(resp.output) /\ resp.output.type # "string"
         THEN Threw("output.includes is not a function")
         ELSE Returned([success |-> TRUE,
                        compilationSuccess |-> TRUE,
                        executionSuccess |-> TRUE,
                        compilationErrors |-> "",
                        executionOutput |-> IF Truthy(resp.output) THEN resp.output.str
                                            ELSE <<NoOutput>>,
                        testResults |-> analyzeOutput(IF Truthy(resp.output)
                                                      THEN resp.output.str ELSE <<>>)])
    ELSE Threw("Service returned error: Unknown error")

\* ------------------------------------------- compileAndRun state machine
NoAnalysis == [g \in Groups |-> <<>>]

\* values of the calculator's variables while nothing is being graded
GradeIdle ==
    /\ variant = "strict"
    /\ analysis = NoAnalysis
    /\ compilationSuccess = FALSE
    /\ executionSuccess = FALSE
    /\ grades = NoGrades
    /\ runs = 0

\* compileAndRun(transactionContent, portfolioContent) has just been called
AdapterInit ==
    /\ transactionContent \in Texts
    /\ portfolioContent \in Texts
    /\ pc = "loop"
    /\ serviceIdx = 1
    /\ response = NoResponse
    /\ calls = <<>>
    /\ result = NoResult
    /\ GradeIdle
    /\ PipelineIdle
    /\ StoreIdle

SetOutcomeOfLast(log, outcome) == [log EXCEPT ![Len(log)].outcome = outcome]

\* `for (const service of this.services)`: the next service is called and
\* the invocation waits for axios
CallService ==
    /\ pc = "loop"
    /\ serviceIdx <= Len(services)
    /\ pc' = "awaiting"
    /\ response' = NoResponse
    /\ calls' = Append(calls, [step |-> services[serviceIdx], outcome |-> "pending"])
    /\ UNCHANGED <<transactionContent, portfolioContent, serviceIdx, result>>
    /\ UNCHANGED <<gradeVars, pipelineVars, storeVars>>

\* the loop without `return result`: a success is kept and the next step is
\* taken all the same
ServiceResponds_NoReturn(resp) ==
    /\ pc = "awaiting"
    /\ response' = resp
    /\ LET out == tryService(services[serviceIdx], resp)
       IN  IF ~out.threw /\ out.value.success
           THEN /\ result' = out.value
                /\ calls' = SetOutcomeOfLast(calls, "ok")
           ELSE /\ result' = result
                /\ calls' = SetOutcomeOfLast(calls, "failed")
    /\ pc' = "loop"
    /\ serviceIdx' = serviceIdx + 1
    /\ UNCHANGED <<transactionContent, portfolioContent>>
    /\ UNCHANGED <<gradeVars, pipelineVars, storeVars>>

\* the request without `timeout: 30000`: a service that never answers leaves
\* the invocation waiting for ever
ServiceResponds_NoTimeout(resp) ==
    /\ pc = "awaiting"
    /\ response' = resp
    /\ LET out == tryService(services[serviceIdx], resp)
       IN  IF resp.kind = "error"
           THEN /\ result' = result
                /\ pc' = "hung"
                /\ calls' = calls
                /\ serviceIdx' = serviceIdx
           ELSE IF ~out.threw /\ out.value.success
           THEN /\ result' = out.value
                /\ pc' = "returned"
                /\ calls' = SetOutcomeOfLast(calls, "ok")
                /\ serviceIdx' = serviceIdx
           ELSE /\ result' = result
                /\ pc' = "loop"
                /\ calls' = SetOutcomeOfLast(calls, "failed")
                /\ serviceIdx' = serviceIdx + 1
    /\ UNCHANGED <<transactionContent, portfolioContent>>
    /\ UNCHANGED <<gradeVars, pipelineVars, storeVars>>

\* axios settles with resp and the rest of tryService and of the loop body
\* runs: a result with success is returned, an error thrown by tryService is
\* caught by the inner catch and the loop goes on
ServiceResponds(resp) ==
    /\ pc = "awaiting"
    /\ response' = resp
    /\ LET out == tryService(services[serviceIdx], resp)
       IN  IF ~out.threw /\ out.value.success
           THEN /\ result' = out.value
                /\ pc' = "returned"
                /\ calls' = SetOutcomeOfLast(calls, "ok")
                /\ serviceIdx' = serviceIdx
           ELSE /\ result' = result
                /\ pc' = "loop"
                /\ calls' = SetOutcomeOfLast(calls, "failed")
                /\ serviceIdx' = serviceIdx + 1
    /\ UNCHANGED <<transactionContent, portfolioContent>>
    /\ UNCHANGED <<gradeVars, pipelineVars, storeVars>>

\* The loop is over: fallbackCompilation runs and its result is returned.
\* It raises nothing on texts, so the outer catch has nothing to catch.
Fallback ==
    /\ pc = "loop"
    /\ serviceIdx > Len(services)
    /\ result' = fallbackCompilation(transactionContent, portfolioContent)
    /\ pc' = "returned"
    /\ calls' = Append(calls, [step |-> "fallback", outcome |-> "ok"])
    /\ UNCHANGED <<transactionContent, portfolioContent, serviceIdx, response>>
    /\ UNCHANGED <<gradeVars, pipelineVars, storeVars>>

AdapterNext ==
    \/ CallService
    \/ \E resp \in Responses : ServiceResponds(resp)
    \/ Fallback

AdapterSpec == AdapterInit /\ [][AdapterNext]_vars

\* The event loop runs every continuation that is ready, and every axios
\* request settles: with a response, with an error, or after `timeout: 30000`.
\* two source files of class headers and main methods
AdapterFairInit ==
    /\ AdapterInit
    /\ \A i \in 1..Len(transactionContent) : transactionContent[i] \in {ClassLine, MainLine}
    /\ \A i \in 1..Len(portfolioContent) : portfolioContent[i] \in {ClassLine, MainLine}

AdapterFairSpec ==
    /\ AdapterFairInit
    /\ [][AdapterNext]_vars
    /\ WF_vars(CallService)
    /\ WF_vars(\E resp \in Responses : ServiceResponds(resp))
    /\ WF_vars(Fallback)

\* ------------------------------------------- POST /api/upload, one request
\* The handler of database-config.js (variant "strict": callExistingGrader with
\* local javac and java) and the handler of vercel-grader.js (variant
\* "lenient": compileAndRun), from the arrival of a request with both files to
\* its response.
StudentEmail == "student@example.edu"

\* error.stderr || error.message of a failed javac
CompilationErrorTexts == {"PortfolioManager.java:1: error: ';' expected",
                          LongCompilationError,
                          "Command failed: javac TransactionHistory.java PortfolioManager.java"}

\* error.stderr || error.message of a failed java: an exception trace, or the
\* message of a timeout or of a non-zero exit without stderr
ExecutionErrorTexts == {<<ExceptionFragment>>, <<CommandFailedFragment>>}

\* `if (!grades.x) grades.x = 0`: NaN (held as -1) becomes 0
EnsureGrades(g) == [k \in DOMAIN g |-> IF g[k] = -1 THEN 0 ELSE g[k]]

\* what compileAndRun can return for the texts: the result of a service that
\* succeeded, or the result of fallbackCompilation
CompilationResults(t, pm) ==
    {fallbackCompilation(t, pm)}
    \cup {tryService(services[1], resp).value :
            resp \in {r \in Responses : ~tryService(services[1], r).threw}}

\* the submission record pushed to the stores
Submission ==
    [id |-> "session_1", studentName |-> studentName, studentEmail |-> StudentEmail,
     analysis |-> analysis, grades |-> grades, testResults |-> testResults,
     feedback |-> feedback, compilationSuccess |-> compilationSuccess,
     executionSuccess |-> executionSuccess, compilationErrors |-> compilationErrors,
     executionOutput |-> executionOutput]

\* the uploaded TransactionHistory.java: field declarations
TransactionUploads == {t \in Texts : Len(t) < MaxTextLen /\ \A i \in 1..Len(t) : t[i] = FieldLine}

\* the uploaded PortfolioManager.java
PortfolioUploads == {t \in Texts : Len(t) < MaxTextLen}

PipelineInit ==
    /\ variant \in Calculators
    /\ studentName \in StudentNames
    /\ transactionContent \in TransactionUploads
    /\ portfolioContent \in PortfolioUploads
    /\ stage = "received"
    /\ analysis = NoAnalysis
    /\ compilationSuccess = FALSE
    /\ executionSuccess = FALSE
    /\ grades = NoGrades
    /\ runs = 0
    /\ pc = "idle"
    /\ serviceIdx = 0
    /\ response = NoResponse
    /\ calls = <<>>
    /\ result = NoResult
    /\ compilationErrors = ""
    /\ executionOutput = <<>>
    /\ testResults = <<>>
    /\ feedback = <<>>
    /\ StoreIdle

\* what no step of one upload changes
PipelineFrame ==
    UNCHANGED <<variant, runs, transactionContent, portfolioContent, pc, serviceIdx,
                response, calls, studentName, requests, now, reply, sessions,
                professors, rows, updates>>

\* the rest of the grading once compilation and run are over: calculateGrades,
\* (database-config.js) the repair of missing grades, generateFeedback
FinishGrading(a, cs, es, errors, output, tests) ==
    LET g == IF variant = "strict" THEN EnsureGrades(strictCalculateGrades(a, cs, es))
             ELSE lenientCalculateGrades(a, cs, es)
    IN  /\ analysis' = a
        /\ compilationSuccess' = cs
        /\ executionSuccess' = es
        /\ compilationErrors' = errors
        /\ executionOutput' = output
        /\ testResults' = tests
        /\ grades' = g
        /\ feedback' = generateFeedback(variant, a, g, cs, es, errors, output, tests)
        /\ stage' = "graded"

\* the catch of callExistingGrader
GradingError(message) ==
    /\ analysis' = <<>>
    /\ grades' = [total |-> 0]
    /\ testResults' = <<[name |-> "System Error", success |-> FALSE,
                         description |-> "Error during grading: " \o message]>>
    /\ feedback' = <<TextLine("error", "grading", "failed", <<message>>)>>
    /\ compilationSuccess' = FALSE
    /\ executionSuccess' = FALSE
    /\ compilationErrors' = message
    /\ executionOutput' = <<>>
    /\ stage' = "graded"

\* the catch of the handler: status 500, nothing stored
RespondError ==
    /\ stage' = "failed"
    /\ UNCHANGED <<analysis, compilationSuccess, executionSuccess, grades,
                   compilationErrors, executionOutput, testResults, feedback>>

\* database-config.js: the files are moved to the session directory, then
\* callExistingGrader reads them and analyses them, up to the await of javac.
\* io says which file operation fails, if any.
StartGrading(io) ==
    /\ variant = "strict"
    /\ stage = "received"
    /\ IF io = "moveFails"
       THEN /\ RespondError
            /\ UNCHANGED result
       ELSE LET a == analyzeCodeStructure(variant, transactionContent, portfolioContent,
                                          studentName)
            IN  /\ IF io = "readFails"
                   THEN GradingError("ENOENT: no such file or directory")
                   ELSE IF a.threw
                   THEN GradingError(a.message)
                   ELSE /\ analysis' = a.report
                        /\ stage' = "compiling"
                        /\ UNCHANGED <<compilationSuccess, executionSuccess, grades,
                                       compilationErrors, executionOutput, testResults,
                                       feedback>>
                /\ UNCHANGED result
    /\ UNCHANGED <<submissions, students>>
    /\ PipelineFrame

\* javac ends: with exit code 0, or with an error (error text on stderr, or
\* none when the 10 s timeout killed it), in which case nothing is run and
\* the grading is finished with an empty testResults
CompileEnds(ok, errors) ==
    /\ variant = "strict"
    /\ stage = "compiling"
    /\ IF ok
       THEN /\ compilationSuccess' = TRUE
            /\ stage' = "running"
            /\ UNCHANGED <<analysis, executionSuccess, grades, compilationErrors,
                           executionOutput, testResults, feedback>>
       ELSE FinishGrading(analysis, FALSE, FALSE, errors, <<>>, <<>>)
    /\ UNCHANGED <<result, submissions, students>>
    /\ PipelineFrame

\* java ends: with exit code 0 and its stdout, or with an error
RunEnds(ok, output) ==
    /\ variant = "strict"
    /\ stage = "running"
    /\ IF ok
       THEN /\ output \in Transcripts
            /\ FinishGrading(analysis, TRUE, TRUE, "", output, analyzeExecutionOutput(output))
       ELSE /\ output \in ExecutionErrorTexts
            /\ FinishGrading(analysis, TRUE, FALSE, "", output,
                             <<[name |-> "Execution Test", success |-> FALSE,
                                description |-> "Program failed to run"]>>)
    /\ UNCHANGED <<result, submissions, students>>
    /\ PipelineFrame

\* vercel-grader.js: the two files are read, up to the await of compileAndRun
ReadFiles(readOk) ==
    /\ variant = "lenient"
    /\ stage = "received"
    /\ IF readOk
       THEN /\ stage' = "compiling"
            /\ UNCHANGED <<analysis, compilationSuccess, executionSuccess, grades,
                           compilationErrors, executionOutput, testResults, feedback>>
       ELSE RespondError
    /\ UNCHANGED <<result, submissions, students>>
    /\ PipelineFrame

\* vercel-grader.js: compileAndRun returns r; analysis, grades and feedback follow
CompileAndRunReturns(r) ==
    /\ variant = "lenient"
    /\ stage = "compiling"
    /\ result' = r
    /\ LET a == analyzeCodeStructure(variant, transactionContent, portfolioContent,
                                     studentName)
       IN  IF a.threw
           THEN RespondError
           ELSE FinishGrading(a.report, r.compilationSuccess, r.executionSuccess,
                              r.compilationErrors, r.executionOutput, r.testResults)
    /\ UNCHANGED <<submissions, students>>
    /\ PipelineFrame

\* the submission is stored, the student record is created or updated, and
\* the response is sent
Store ==
    /\ stage = "graded"
    /\ submissions' = Append(submissions, Submission)
    /\ students' = <<[email |-> StudentEmail, name |-> studentName,
                      submissions |-> <<Submission>>,
                      bestScore |-> IF grades.total > 0 THEN grades.total ELSE 0]>>
    /\ stage' = "responded"
    /\ UNCHANGED <<analysis, compilationSuccess, executionSuccess, grades, compilationErrors,
                   executionOutput, testResults, feedback, result>>
    /\ PipelineFrame

PipelineNext ==
    \/ \E io \in {"ok", "moveFails", "readFails"} : StartGrading(io)
    \/ \E ok \in BOOLEAN, errors \in CompilationErrorTexts : CompileEnds(ok, errors)
    \/ \E ok \in BOOLEAN, output \in Transcripts \cup ExecutionErrorTexts : RunEnds(ok, output)
    \/ \E readOk \in BOOLEAN : ReadFiles(readOk)
    \/ \E r \in CompilationResults(transactionContent, portfolioContent) :
          CompileAndRunReturns(r)
    \/ Store

PipelineSpec == PipelineInit /\ [][PipelineNext]_vars

\* ---------------------------------- POST /api/upload, concurrent requests

\* requests in flight at the same time
MaxRequests == 2

\* milliseconds that pass while the requests are handled
MaxClock == 1

Emails == {"ann@example.edu", "bob@example.edu"}

\* studentEmail and studentName of the uploads: one student under two names,
\* and another student
Uploaders == {[email |-> "ann@example.edu", name |-> "Ann"],
              [email |-> "ann@example.edu", name |-> "Ann Lee"],
              [email |-> "bob@example.edu", name |-> "Bob"]}

Totals == {0, 100}

\* the awaits of the upload handler: ensureDir, move, move, callExistingGrader
\* in database-config.js; readFile, readFile, compileAndRun in vercel-grader.js
AwaitPoints(v) == IF v = "strict" THEN 4 ELSE 3

\* the index of the student record that students.find returns, 0 for none
FindStudent(list, email) ==
    IF \E i \in 1..Len(list) : list[i].email = email
    THEN CHOOSE i \in 1..Len(list) :
            /\ list[i].email = email
            /\ \A j \in 1..(i - 1) : list[j].email # email
    ELSE 0

\* list.sort((a, b) => new Date(b.timestamp) - new Date(a.timestamp)) from
\* the timestamp t down: newest first, equal timestamps in their old order
RECURSIVE SortNewestFirst(_, _)
SortNewestFirst(list, t) ==
    IF t < 0 THEN <<>>
    ELSE LET At(x) == x.timestamp = t
         IN SelectSeq(list, At) \o SortNewestFirst(list, t - 1)

UploadInit ==
    /\ variant \in Calculators
    /\ analysis = NoAnalysis
    /\ compilationSuccess = FALSE
    /\ executionSuccess = FALSE
    /\ grades = NoGrades
    /\ runs = 0
    /\ AdapterIdle
    /\ PipelineIdle
    /\ StoreIdle

UploadFrame == UNCHANGED <<gradeVars, adapterVars, pipelineVars, sessions, professors, rows,
                           updates>>

Response(route, cookie, status, data) ==
    [route |-> route, cookie |-> cookie, status |-> status, data |-> data, username |-> "",
     password |-> ""]

\* a millisecond passes
Tick ==
    /\ now < MaxClock
    /\ now' = now + 1
    /\ UNCHANGED <<submissions, students, requests, reply>>
    /\ UploadFrame

\* a request arrives and its handler runs up to its first await, or to the
\* 400 response when a file is missing; database-config.js chooses the
\* session id, which names the upload directory, before its first await
Arrive(uploader, hasFiles) ==
    /\ Len(requests) < MaxRequests
    /\ requests' = Append(requests,
                          [email |-> uploader.email, name |-> uploader.name, awaits |-> 1,
                           state |-> IF hasFiles THEN "waiting" ELSE "rejected",
                           sessionId |-> IF variant = "strict" /\ hasFiles THEN now ELSE -1])
    /\ reply' = IF hasFiles THEN reply ELSE Response("upload", 0, 400, FALSE)
    /\ UNCHANGED <<submissions, students, now>>
    /\ UploadFrame

\* fs.move finds its destination taken: another request with the same upload
\* directory has already moved its file there
DestinationExists(r) ==
    /\ variant = "strict"
    /\ requests[r].awaits \in {2, 3}
    /\ \E q \in 1..Len(requests) :
          /\ q # r
          /\ requests[q].sessionId = requests[r].sessionId
          /\ requests[q].awaits > requests[r].awaits

\* the operation a handler awaits ends and the handler runs up to its next
\* await, or, when the operation failed, to its catch and the 500 response
Resume(r, ok) ==
    /\ requests[r].state = "waiting"
    /\ requests[r].awaits < AwaitPoints(variant)
    /\ IF ok /\ ~DestinationExists(r)
       THEN /\ requests' = [requests EXCEPT ![r].awaits = @ + 1]
            /\ UNCHANGED reply
       ELSE /\ requests' = [requests EXCEPT ![r].state = "failed"]
            /\ reply' = Response("upload", 0, 500, FALSE)
    /\ UNCHANGED <<submissions, students, now>>
    /\ UploadFrame

\* the history replaces the student's submissions instead of growing
RecordSubmission_ReplaceHistory(list, submission, name) ==
    LET k == FindStudent(list, submission.studentEmail)
    IN  IF k = 0
        THEN Append(list, [email |-> submission.studentEmail, name |-> name,
                           submissions |-> <<submission>>,
                           bestScore |-> submission.total])
        ELSE [list EXCEPT ![k] =
                 [@ EXCEPT !.submissions = <<submission>>,
                           !.bestScore = IF submission.total > @ THEN submission.total
                                         ELSE @]]

\* every upload gets a student record of its own
RecordSubmission_AlwaysNew(list, submission, name) ==
    Append(list, [email |-> submission.studentEmail, name |-> name,
                  submissions |-> <<submission>>,
                  bestScore |-> submission.total])

\* students.find, students.push of a new record, student.submissions.push,
\* bestScore; vercel-grader.js also overwrites the name of a known student
RecordSubmission(list, submission, name) ==
    LET k == FindStudent(list, submission.studentEmail)
    IN  IF k = 0
        THEN Append(list, [email |-> submission.studentEmail, name |-> name,
                           submissions |-> <<submission>>,
                           bestScore |-> submission.total])
        ELSE [list EXCEPT ![k] =
                 [@ EXCEPT !.name = IF variant = "lenient" THEN name ELSE @,
                           !.submissions = Append(@, submission),
                           !.bestScore = IF submission.total > @ THEN submission.total
                                         ELSE @]]

\* the submission object the handler of request r creates (req stands for
\* the identity of the object): database-config.js names it by the session
\* id, vercel-grader.js by the clock at this moment
NewSubmission(r, total) ==
    [req |-> r,
     id |-> IF variant = "strict" THEN requests[r].sessionId ELSE now,
     studentEmail |-> requests[r].email,
     studentName |-> requests[r].name,
     timestamp |-> now,
     total |-> total]

\* the handler pushes the submission before a step that throws
Complete_PushFirst(r, total, threw) ==
    /\ requests[r].state = "waiting"
    /\ requests[r].awaits = AwaitPoints(variant)
    /\ submissions' = Append(submissions, NewSubmission(r, total))
    /\ IF threw /\ variant = "lenient"
       THEN /\ requests' = [requests EXCEPT ![r].state = "failed"]
            /\ reply' = Response("upload", 0, 500, FALSE)
            /\ UNCHANGED students
       ELSE /\ students' = RecordSubmission(students, NewSubmission(r, total),
                                            requests[r].name)
            /\ requests' = [requests EXCEPT ![r].state = "responded"]
            /\ reply' = Response("upload", 0, 200, TRUE)
    /\ UNCHANGED now
    /\ UploadFrame

\* the last await ends and the handler runs to its end without another await:
\* in vercel-grader.js the analysis, the grading or the feedback may throw
\* (threw), which ends the request with 500; otherwise the submission is
\* pushed, the student record is found or created, the history grows, and
\* the response is sent
Complete(r, total, threw) ==
    /\ requests[r].state = "waiting"
    /\ requests[r].awaits = AwaitPoints(variant)
    /\ IF threw /\ variant = "lenient"
       THEN /\ requests' = [requests EXCEPT ![r].state = "failed"]
            /\ reply' = Response("upload", 0, 500, FALSE)
            /\ UNCHANGED <<submissions, students>>
       ELSE /\ submissions' = Append(submissions, NewSubmission(r, total))
            /\ students' = RecordSubmission(students, NewSubmission(r, total),
                                            requests[r].name)
            /\ requests' = [requests EXCEPT ![r].state = "responded"]
            /\ reply' = Response("upload", 0, 200, TRUE)
    /\ UNCHANGED now
    /\ UploadFrame

\* GET /api/admin/dashboard behind requireAuth: vercel-grader.js sorts the
\* submissions list itself, newest first, before it slices the recent ones;
\* database-config.js slices first and reverses the copy
DashboardHandler(cookie) ==
    /\ submissions' = IF variant = "lenient" THEN SortNewestFirst(submissions, MaxClock)
                      ELSE submissions
    /\ reply' = Response("dashboard", cookie, 200, TRUE)
    /\ UNCHANGED <<students, requests, now>>

\* GET /api/admin/student/:email behind requireAuth: vercel-grader.js sorts
\* the student's history itself, newest first
StudentHandler(cookie, email) ==
    LET k == FindStudent(students, email)
    IN  /\ IF k = 0
           THEN /\ reply' = Response("student", cookie, 404, FALSE)
                /\ UNCHANGED students
           ELSE /\ reply' = Response("student", cookie, 200, TRUE)
                /\ students' = IF variant = "lenient"
                               THEN [students EXCEPT ![k].submissions =
                                        SortNewestFirst(@, MaxClock)]
                               ELSE students
        /\ UNCHANGED <<submissions, requests, now>>

\* a professor who is logged in reads the dashboard
ReadDashboard ==
    /\ DashboardHandler(1)
    /\ UploadFrame

\* a professor who is logged in reads one student
ReadStudent(email) ==
    /\ StudentHandler(1, email)
    /\ UploadFrame

UploadNext ==
    \/ Tick
    \/ \E uploader \in Uploaders, hasFiles \in BOOLEAN : Arrive(uploader, hasFiles)
    \/ \E r \in 1..Len(requests), ok \in BOOLEAN : Resume(r, ok)
    \/ \E r \in 1..Len(requests), total \in Totals, threw \in BOOLEAN :
          Complete(r, total, threw)
    \/ ReadDashboard
    \/ \E email \in Emails : ReadStudent(email)

UploadSpec == UploadInit /\ [][UploadNext]_vars

\* ------------------------------------------- sessions and the admin routes

\* browsers, each with its own connect.sid cookie
MaxSessions == 2

Usernames == {"", "admin", "eve"}

Passwords == {"", "admin123", "guess"}

\* bcrypt.hash: the hash stands for the password it was made from
Hash(password) == <<"$2b$10$", password>>

\* bcrypt.compare
Compare(password, hash) == Hash(password) = hash

\* adminCredentials: username 'admin', password the hash of 'admin123'
adminCredentials == [username |-> "admin", password |-> Hash("admin123")]

\* a session nobody has logged in to
NoSession == [authenticated |-> FALSE, username |-> ""]

AuthInit ==
    /\ variant \in Calculators
    /\ analysis = NoAnalysis
    /\ compilationSuccess = FALSE
    /\ executionSuccess = FALSE
    /\ grades = NoGrades
    /\ runs = 0
    /\ AdapterIdle
    /\ PipelineIdle
    /\ submissions = <<>>
    /\ students = <<>>
    /\ requests = <<>>
    /\ now = 0
    /\ reply = NoReply
    /\ sessions = [c \in 1..MaxSessions |-> NoSession]
    /\ professors = <<>>
    /\ rows = <<>>
    /\ updates = <<>>

AuthFrame == UNCHANGED <<gradeVars, adapterVars, pipelineVars, professors, rows, updates>>

LoginResponse(cookie, status, username, password) ==
    [route |-> "login", cookie |-> cookie, status |-> status, data |-> FALSE,
     username |-> username, password |-> password]

\* POST /api/auth/login up to its await of bcrypt.compare: 400 without a
\* username or a password, 401 for a username other than the admin's
LoginStart(cookie, username, password) ==
    /\ Len(requests) < MaxRequests
    /\ IF username = "" \/ password = ""
       THEN /\ reply' = LoginResponse(cookie, 400, username, password)
            /\ UNCHANGED requests
       ELSE IF username # adminCredentials.username
       THEN /\ reply' = LoginResponse(cookie, 401, username, password)
            /\ UNCHANGED requests
       ELSE /\ requests' = Append(requests, [cookie |-> cookie, username |-> username,
                                             password |-> password])
            /\ UNCHANGED reply
    /\ UNCHANGED <<submissions, students, now, sessions>>
    /\ AuthFrame

\* the login that marks the session authenticated whatever bcrypt.compare says
LoginEnd_AnyPassword(k) ==
    /\ k \in 1..Len(requests)
    /\ requests' = [i \in 1..(Len(requests) - 1) |->
                       IF i < k THEN requests[i] ELSE requests[i + 1]]
    /\ sessions' = [sessions EXCEPT ![requests[k].cookie] =
                       [authenticated |-> TRUE, username |-> requests[k].username]]
    /\ reply' = LoginResponse(requests[k].cookie, 200, requests[k].username,
                              requests[k].password)
    /\ UNCHANGED <<submissions, students, now>>
    /\ AuthFrame

\* bcrypt.compare resolves for the k-th login under way: on a match the
\* session is marked authenticated, otherwise 401
LoginEnd(k) ==
    /\ k \in 1..Len(requests)
    /\ requests' = [i \in 1..(Len(requests) - 1) |->
                       IF i < k THEN requests[i] ELSE requests[i + 1]]
    /\ IF Compare(requests[k].password, adminCredentials.password)
       THEN /\ sessions' = [sessions EXCEPT ![requests[k].cookie] =
                               [authenticated |-> TRUE, username |-> requests[k].username]]
            /\ reply' = LoginResponse(requests[k].cookie, 200, requests[k].username,
                                      requests[k].password)
       ELSE /\ reply' = LoginResponse(requests[k].cookie, 401, requests[k].username,
                                      requests[k].password)
            /\ UNCHANGED sessions
    /\ UNCHANGED <<submissions, students, now>>
    /\ AuthFrame

\* POST /api/auth/logout: req.session.destroy (the default MemoryStore does
\* not fail) and clearCookie
Logout(cookie) ==
    /\ sessions' = [sessions EXCEPT ![cookie] = NoSession]
    /\ reply' = Response("logout", cookie, 200, FALSE)
    /\ UNCHANGED <<submissions, students, requests, now>>
    /\ AuthFrame

\* requireAuth: next() for an authenticated session, 401 otherwise
requireAuth(cookie) == sessions[cookie].authenticated

\* GET /api/admin/dashboard
GetDashboard(cookie) ==
    /\ IF requireAuth(cookie)
       THEN DashboardHandler(cookie)
       ELSE /\ reply' = Response("dashboard", cookie, 401, FALSE)
            /\ UNCHANGED <<submissions, students, requests, now>>
    /\ UNCHANGED sessions
    /\ AuthFrame

\* GET /api/admin/student/:email
GetStudent(cookie, email) ==
    /\ IF requireAuth(cookie)
       THEN StudentHandler(cookie, email)
       ELSE /\ reply' = Response("student", cookie, 401, FALSE)
            /\ UNCHANGED <<submissions, students, requests, now>>
    /\ UNCHANGED sessions
    /\ AuthFrame

\* GET /admin: the page for an authenticated session, a redirect to /login
\* otherwise
GetAdminPage(cookie) ==
    /\ reply' = Response("admin", cookie, IF sessions[cookie].authenticated THEN 200 ELSE 302,
                         FALSE)
    /\ UNCHANGED <<submissions, students, requests, now, sessions>>
    /\ AuthFrame

AuthNext ==
    \/ \E c \in 1..MaxSessions, u \in Usernames, pw \in Passwords : LoginStart(c, u, pw)
    \/ \E k \in 1..MaxRequests : LoginEnd(k)
    \/ \E c \in 1..MaxSessions : Logout(c)
    \/ \E c \in 1..MaxSessions : GetDashboard(c)
    \/ \E c \in 1..MaxSessions, email \in Emails : GetStudent(c, email)
    \/ \E c \in 1..MaxSessions : GetAdminPage(c)

AuthSpec == AuthInit /\ [][AuthNext]_vars

\* ------------------------------------------- auth.js: the professors table

ProfessorIds == {"PROF001", "PROF002"}

ProfessorEmails == {"ann@asu.edu", "bob@asu.edu", "eve@mail.com"}

ProfessorPasswords == {"", "abc", "secret", "secret12"}

\* 'Password must be at least 6 characters'
MinPasswordLength == 6

ProfessorInit ==
    /\ variant \in Calculators
    /\ analysis = NoAnalysis
    /\ compilationSuccess = FALSE
    /\ executionSuccess = FALSE
    /\ grades = NoGrades
    /\ runs = 0
    /\ AdapterIdle
    /\ PipelineIdle
    /\ submissions = <<>>
    /\ students = <<>>
    /\ requests = <<>>
    /\ now = 0
    /\ reply = NoReply
    /\ sessions = <<>>
    /\ professors = <<>>
    /\ rows = <<>>
    /\ updates = <<>>

ProfessorFrame ==
    UNCHANGED <<gradeVars, adapterVars, pipelineVars, submissions, students, requests, now,
                sessions, rows, updates>>

\* what a call returned: success or not, and the password it was given
CallResult(call, id, success, password) ==
    [route |-> call, cookie |-> 0, status |-> IF success THEN 200 ELSE 400, data |-> FALSE,
     username |-> id, password |-> password]

\* the .edu e-mail addresses
IsEduEmail(email) == email \in {"ann@asu.edu", "bob@asu.edu"}

\* registerProfessor: validates the input, refuses a professor_id or an
\* e-mail already in the table, then inserts the row with the hashed password
registerProfessor(professor_id, email, password) ==
    /\ IF \/ email = "" \/ professor_id = "" \/ password = ""
          \/ ~IsEduEmail(email)
          \/ Len(password) < MinPasswordLength
          \/ \E i \in 1..Len(professors) : professors[i].professor_id = professor_id
          \/ \E i \in 1..Len(professors) : professors[i].email = email
       THEN /\ reply' = CallResult("registerProfessor", professor_id, FALSE, password)
            /\ UNCHANGED professors
       ELSE /\ professors' = Append(professors, [professor_id |-> professor_id,
                                                 email |-> email,
                                                 password_hash |-> Hash(password)])
            /\ reply' = CallResult("registerProfessor", professor_id, TRUE, password)
    /\ ProfessorFrame

\* the rows as updateProfessor leaves them: a password that is provided is
\* hashed and stored in the row of that professor_id
UpdatedRows(professorId, password) ==
    [i \in 1..Len(professors) |->
        IF professors[i].professor_id = professorId /\ password # ""
        THEN [professors[i] EXCEPT !.password_hash = Hash(password)]
        ELSE professors[i]]

\* what updateProfessor returns: .single() fails when no row has that
\* professor_id
UpdateResult(call, professorId, password) ==
    CallResult(call, professorId,
              \E i \in 1..Len(professors) : professors[i].professor_id = professorId,
              password)

\* updateProfessor(professorId, { password })
updateProfessor(professorId, password) ==
    /\ professors' = UpdatedRows(professorId, password)
    /\ reply' = UpdateResult("updateProfessor", professorId, password)
    /\ ProfessorFrame

\* resetPassword(professorId, newPassword): this.auth.updateProfessor(
\* professorId, { password: newPassword }) and its result
resetPassword(professorId, newPassword) ==
    /\ professors' = UpdatedRows(professorId, newPassword)
    /\ reply' = UpdateResult("resetPassword", professorId, newPassword)
    /\ ProfessorFrame

ProfessorNext ==
    \/ \E id \in ProfessorIds, email \in ProfessorEmails, pw \in ProfessorPasswords :
           registerProfessor(id, email, pw)
    \/ \E id \in ProfessorIds, pw \in ProfessorPasswords :
           updateProfessor(id, pw)
    \/ \E id \in ProfessorIds, pw \in ProfessorPasswords : resetPassword(id, pw)

ProfessorSpec == ProfessorInit /\ [][ProfessorNext]_vars

\* ------------------------------- Supabase: updateStudent, updateStudentAssignment

\* calls of updateStudent and updateStudentAssignment made in one behaviour
MaxUpdates == 3

\* no row: what .single() gives when the select matches nothing (PGRST116)
NoRow == [email |-> "", submissions |-> <<>>, best_score |-> 0, submission_count |-> 0,
          total_attempts |-> 0]

\* the row of a table with that e-mail, NoRow if there is none
SelectSingle(table, email) ==
    IF FindStudent(table, email) = 0 THEN NoRow ELSE table[FindStudent(table, email)]

\* .update(values).eq('email', email)
UpdateWhere(table, email, values) ==
    [i \in 1..Len(table) |-> IF table[i].email = email THEN values ELSE table[i]]

SupabaseInit ==
    /\ variant \in Calculators
    /\ analysis = NoAnalysis
    /\ compilationSuccess = FALSE
    /\ executionSuccess = FALSE
    /\ grades = NoGrades
    /\ runs = 0
    /\ AdapterIdle
    /\ PipelineIdle
    /\ submissions = <<>>
    /\ students = <<>>
    /\ requests = <<>>
    /\ now = 0
    /\ reply = NoReply
    /\ sessions = <<>>
    /\ professors = <<>>
    /\ rows = [students |-> <<>>, student_assignments |-> <<>>]
    /\ updates = <<>>

SupabaseFrame ==
    UNCHANGED <<gradeVars, adapterVars, pipelineVars, submissions, students, requests, now,
                reply, sessions, professors>>

\* a call begins: it is about to await its select
BeginCall(call, email, total) ==
    /\ Len(updates) < MaxUpdates
    /\ updates' = Append(updates, [call |-> call, email |-> email,
                                   submission |-> [id |-> Len(updates) + 1, total |-> total],
                                   at |-> "select", existing |-> NoRow, success |-> FALSE])
    /\ UNCHANGED rows
    /\ SupabaseFrame

\* updateStudent(studentEmail, studentData) is called
updateStudent(studentEmail, total) ==
    /\ BeginCall("updateStudent", studentEmail, total)

\* updateStudentAssignment(studentId, score) is called: one assignment is
\* active
updateStudentAssignment(studentId, score) ==
    /\ BeginCall("updateStudentAssignment", studentId, score)

\* the select of the k-th call resolves with the row as it is now
SelectResolves(k) ==
    /\ k \in 1..Len(updates)
    /\ updates[k].at = "select"
    /\ updates' = [updates EXCEPT
           ![k].at = "write",
           ![k].existing =
               SelectSingle(IF updates[k].call = "updateStudent" THEN rows.students
                            ELSE rows.student_assignments, updates[k].email)]
    /\ UNCHANGED rows
    /\ SupabaseFrame

\* Math.max(...updatedSubmissions.map(s => s.grades.total))
BestTotal(updatedSubmissions) ==
    CHOOSE m \in {updatedSubmissions[i].total : i \in 1..Len(updatedSubmissions)} :
        \A i \in 1..Len(updatedSubmissions) : updatedSubmissions[i].total <= m

\* the row updateStudent writes over an existing student
UpdatedStudent(existingStudent, submission) ==
    [existingStudent EXCEPT
        !.submissions = Append(existingStudent.submissions, submission),
        !.best_score = BestTotal(Append(existingStudent.submissions, submission)),
        !.submission_count = Len(existingStudent.submissions) + 1]

\* the update or the insert of the k-th updateStudent call resolves; the
\* insert fails when the e-mail, the primary key, is in the table by now
StudentWriteResolves(k) ==
    /\ k \in 1..Len(updates)
    /\ updates[k].call = "updateStudent"
    /\ updates[k].at = "write"
    /\ IF updates[k].existing # NoRow
       THEN /\ rows' = [rows EXCEPT !.students =
                           UpdateWhere(rows.students, updates[k].email,
                                       UpdatedStudent(updates[k].existing,
                                                      updates[k].submission))]
            /\ updates' = [updates EXCEPT ![k].at = "done", ![k].success = TRUE]
       ELSE IF FindStudent(rows.students, updates[k].email) # 0
       THEN /\ updates' = [updates EXCEPT ![k].at = "done", ![k].success = FALSE]
            /\ UNCHANGED rows
       ELSE /\ rows' = [rows EXCEPT !.students =
                           Append(rows.students,
                                  [NoRow EXCEPT !.email = updates[k].email,
                                                !.submissions = <<updates[k].submission>>,
                                                !.best_score = updates[k].submission.total,
                                                !.submission_count = 1])]
            /\ updates' = [updates EXCEPT ![k].at = "done", ![k].success = TRUE]
    /\ SupabaseFrame

\* the record updateStudentAssignment writes over an existing record
UpdatedRecord(existingRecord, score) ==
    [existingRecord EXCEPT
        !.total_attempts = existingRecord.total_attempts + 1,
        !.best_score = IF score > existingRecord.best_score THEN score
                       ELSE existingRecord.best_score]

\* the update or the insert of the k-th updateStudentAssignment call
\* resolves; the insert fails when UNIQUE(student_email, assignment_id) is
\* violated by now
RecordWriteResolves(k) ==
    /\ k \in 1..Len(updates)
    /\ updates[k].call = "updateStudentAssignment"
    /\ updates[k].at = "write"
    /\ IF updates[k].existing # NoRow
       THEN /\ rows' = [rows EXCEPT !.student_assignments =
                           UpdateWhere(rows.student_assignments, updates[k].email,
                                       UpdatedRecord(updates[k].existing,
                                                     updates[k].submission.total))]
            /\ updates' = [updates EXCEPT ![k].at = "done", ![k].success = TRUE]
       ELSE IF FindStudent(rows.student_assignments, updates[k].email) # 0
       THEN /\ updates' = [updates EXCEPT ![k].at = "done", ![k].success = FALSE]
            /\ UNCHANGED rows
       ELSE /\ rows' = [rows EXCEPT !.student_assignments =
                           Append(rows.student_assignments,
                                  [NoRow EXCEPT !.email = updates[k].email,
                                                !.best_score = updates[k].submission.total,
                                                !.total_attempts = 1])]
            /\ updates' = [updates EXCEPT ![k].at = "done", ![k].success = TRUE]
    /\ SupabaseFrame

SupabaseNext ==
    \/ \E total \in Totals : updateStudent(StudentEmail, total)
    \/ \E score \in Totals : updateStudentAssignment(StudentEmail, score)
    \/ \E k \in 1..MaxUpdates : SelectResolves(k)
    \/ \E k \in 1..MaxUpdates : StudentWriteResolves(k)
    \/ \E k \in 1..MaxUpdates : RecordWriteResolves(k)

SupabaseSpec == SupabaseInit /\ [][SupabaseNext]_vars

\* ------------------------------------------- the sample pair of the repository

\* sample/PortfolioManager.java: its lines that hold two adjacent digits, a
\* SimpleDateFormat pattern, or one of the words invalid, error, input and
\* message, without their indentation, one character per element; a
\* character that is not ASCII is written "?"
SamplePortfolioLines ==
    {
      \* line 4
      <<"*", " ", "D", "a", "t", "e", ":", " ", "2", "0", "2", "4", "-", "0", "1", "-", "1",
        "5">>,
      \* line 19
      <<"/", "/", " ", "S", "c", "a", "n", "n", "e", "r", " ", "f", "o", "r", " ", "u", "s",
        "e", "r", " ", "i", "n", "p", "u", "t">>,
      \* line 39
      <<"S", "y", "s", "t", "e", "m", ".", "o", "u", "t", ".", "p", "r", "i", "n", "t", "l",
        "n", "(", "\"", "?", " ", "E", "r", "r", "o", "r", ":", " ", "P", "l", "e", "a", "s",
        "e", " ", "e", "n", "t", "e", "r", " ", "a", " ", "v", "a", "l", "i", "d", " ", "n",
        "u", "m", "b", "e", "r", " ", "(", "0", "-", "6", ")", "\"", ")", ";">>,
      \* line 85
      <<"S", "y", "s", "t", "e", "m", ".", "o", "u", "t", ".", "p", "r", "i", "n", "t", "l",
        "n", "(", "\"", "?", " ", "E", "r", "r", "o", "r", ":", " ", "I", "n", "v", "a", "l",
        "i", "d", " ", "o", "p", "t", "i", "o", "n", ".", " ", "P", "l", "e", "a", "s", "e",
        " ", "c", "h", "o", "o", "s", "e", " ", "0", "-", "6", ".", "\"", ")", ";">>,
      \* line 94
      <<"T", "r", "a", "n", "s", "a", "c", "t", "i", "o", "n", "H", "i", "s", "t", "o", "r",
        "y", " ", "d", "e", "p", "o", "s", "i", "t", " ", "=", " ", "n", "e", "w", " ", "T",
        "r", "a", "n", "s", "a", "c", "t", "i", "o", "n", "H", "i", "s", "t", "o", "r", "y",
        "(", "\"", "C", "A", "S", "H", "\"", ",", " ", "g", "e", "t", "C", "u", "r", "r",
        "e", "n", "t", "D", "a", "t", "e", "(", ")", ",", " ", "\"", "D", "E", "P", "O", "S",
        "I", "T", "\"", ",", " ", "a", "m", "o", "u", "n", "t", ",", " ", "1", ".", "0", "0",
        ")", ";">>,
      \* line 98
      <<"S", "y", "s", "t", "e", "m", ".", "o", "u", "t", ".", "p", "r", "i", "n", "t", "l",
        "n", "(", "\"", "?", " ", "E", "r", "r", "o", "r", ":", " ", "D", "e", "p", "o", "s",
        "i", "t", " ", "a", "m", "o", "u", "n", "t", " ", "m", "u", "s", "t", " ", "b", "e",
        " ", "p", "o", "s", "i", "t", "i", "v", "e", ".", "\"", ")", ";">>,
      \* line 101
      <<"S", "y", "s", "t", "e", "m", ".", "o", "u", "t", ".", "p", "r", "i", "n", "t", "l",
        "n", "(", "\"", "?", " ", "E", "r", "r", "o", "r", ":", " ", "P", "l", "e", "a", "s",
        "e", " ", "e", "n", "t", "e", "r", " ", "a", " ", "v", "a", "l", "i", "d", " ", "n",
        "u", "m", "b", "e", "r", ".", "\"", ")", ";">>,
      \* line 112
      <<"T", "r", "a", "n", "s", "a", "c", "t", "i", "o", "n", "H", "i", "s", "t", "o", "r",
        "y", " ", "w", "i", "t", "h", "d", "r", "a", "w", "a", "l", " ", "=", " ", "n", "e",
        "w", " ", "T", "r", "a", "n", "s", "a", "c", "t", "i", "o", "n", "H", "i", "s", "t",
        "o", "r", "y", "(", "\"", "C", "A", "S", "H", "\"", ",", " ", "g", "e", "t", "C",
        "u", "r", "r", "e", "n", "t", "D", "a", "t", "e", "(", ")", ",", " ", "\"", "W", "I",
        "T", "H", "D", "R", "A", "W", "\"", ",", " ", "-", "a", "m", "o", "u", "n", "t", ",",
        " ", "1", ".", "0", "0", ")", ";">>,
      \* line 116
      <<"S", "y", "s", "t", "e", "m", ".", "o", "u", "t", ".", "p", "r", "i", "n", "t", "l",
        "n", "(", "\"", "?", " ", "E", "r", "r", "o", "r", ":", " ", "I", "n", "s", "u", "f",
        "f", "i", "c", "i", "e", "n", "t", " ", "f", "u", "n", "d", "s", ".", " ", "A", "v",
        "a", "i", "l", "a", "b", "l", "e", ":", " ", "$", "\"", " ", "+", " ", "a", "v", "a",
        "i", "l", "a", "b", "l", "e", "C", "a", "s", "h", ")", ";">>,
      \* line 119
      <<"S", "y", "s", "t", "e", "m", ".", "o", "u", "t", ".", "p", "r", "i", "n", "t", "l",
        "n", "(", "\"", "?", " ", "E", "r", "r", "o", "r", ":", " ", "W", "i", "t", "h", "d",
        "r", "a", "w", "a", "l", " ", "a", "m", "o", "u", "n", "t", " ", "m", "u", "s", "t",
        " ", "b", "e", " ", "p", "o", "s", "i", "t", "i", "v", "e", ".", "\"", ")", ";">>,
      \* line 145
      <<"T", "r", "a", "n", "s", "a", "c", "t", "i", "o", "n", "H", "i", "s", "t", "o", "r",
        "y", " ", "c", "a", "s", "h", "W", "i", "t", "h", "d", "r", "a", "w", "a", "l", " ",
        "=", " ", "n", "e", "w", " ", "T", "r", "a", "n", "s", "a", "c", "t", "i", "o", "n",
        "H", "i", "s", "t", "o", "r", "y", "(", "\"", "C", "A", "S", "H", "\"", ",", " ",
        "g", "e", "t", "C", "u", "r", "r", "e", "n", "t", "D", "a", "t", "e", "(", ")", ",",
        " ", "\"", "W", "I", "T", "H", "D", "R", "A", "W", "\"", ",", " ", "-", "t", "o",
        "t", "a", "l", "C", "o", "s", "t", ",", " ", "1", ".", "0", "0", ")", ";">>,
      \* line 150
      <<"S", "y", "s", "t", "e", "m", ".", "o", "u", "t", ".", "p", "r", "i", "n", "t", "l",
        "n", "(", "\"", "?", " ", "E", "r", "r", "o", "r", ":", " ", "I", "n", "s", "u", "f",
        "f", "i", "c", "i", "e", "n", "t", " ", "f", "u", "n", "d", "s", ".", " ", "R", "e",
        "q", "u", "i", "r", "e", "d", ":", " ", "$", "\"", " ", "+", " ", "t", "o", "t", "a",
        "l", "C", "o", "s", "t", " ", "+", " ", "\"", ",", " ", "A", "v", "a", "i", "l", "a",
        "b", "l", "e", ":", " ", "$", "\"", " ", "+", " ", "a", "v", "a", "i", "l", "a", "b",
        "l", "e", "C", "a", "s", "h", ")", ";">>,
      \* line 153
      <<"S", "y", "s", "t", "e", "m", ".", "o", "u", "t", ".", "p", "r", "i", "n", "t", "l",
        "n", "(", "\"", "?", " ", "E", "r", "r", "o", "r", ":", " ", "Q", "u", "a", "n", "t",
        "i", "t", "y", " ", "a", "n", "d", " ", "p", "r", "i", "c", "e", " ", "m", "u", "s",
        "t", " ", "b", "e", " ", "p", "o", "s", "i", "t", "i", "v", "e", ".", "\"", ")", ";">>,
      \* line 156
      <<"S", "y", "s", "t", "e", "m", ".", "o", "u", "t", ".", "p", "r", "i", "n", "t", "l",
        "n", "(", "\"", "?", " ", "E", "r", "r", "o", "r", ":", " ", "P", "l", "e", "a", "s",
        "e", " ", "e", "n", "t", "e", "r", " ", "v", "a", "l", "i", "d", " ", "n", "u", "m",
        "b", "e", "r", "s", ".", "\"", ")", ";">>,
      \* line 179
      <<"T", "r", "a", "n", "s", "a", "c", "t", "i", "o", "n", "H", "i", "s", "t", "o", "r",
        "y", " ", "c", "a", "s", "h", "D", "e", "p", "o", "s", "i", "t", " ", "=", " ", "n",
        "e", "w", " ", "T", "r", "a", "n", "s", "a", "c", "t", "i", "o", "n", "H", "i", "s",
        "t", "o", "r", "y", "(", "\"", "C", "A", "S", "H", "\"", ",", " ", "g", "e", "t",
        "C", "u", "r", "r", "e", "n", "t", "D", "a", "t", "e", "(", ")", ",", " ", "\"", "D",
        "E", "P", "O", "S", "I", "T", "\"", ",", " ", "t", "o", "t", "a", "l", "P", "r", "o",
        "c", "e", "e", "d", "s", ",", " ", "1", ".", "0", "0", ")", ";">>,
      \* line 184
      <<"S", "y", "s", "t", "e", "m", ".", "o", "u", "t", ".", "p", "r", "i", "n", "t", "l",
        "n", "(", "\"", "?", " ", "E", "r", "r", "o", "r", ":", " ", "I", "n", "s", "u", "f",
        "f", "i", "c", "i", "e", "n", "t", " ", "s", "h", "a", "r", "e", "s", ".", " ", "A",
        "v", "a", "i", "l", "a", "b", "l", "e", ":", " ", "\"", " ", "+", " ", "a", "v", "a",
        "i", "l", "a", "b", "l", "e", "S", "h", "a", "r", "e", "s", " ", "+", " ", "\"", " ",
        "s", "h", "a", "r", "e", "s", " ", "o", "f", " ", "\"", " ", "+", " ", "t", "i", "c",
        "k", "e", "r", ")", ";">>,
      \* line 198
      <<"S", "y", "s", "t", "e", "m", ".", "o", "u", "t", ".", "p", "r", "i", "n", "t", "f",
        "(", "\"", "%", "-", "1", "2", "s", " ", "%", "-", "1", "2", "s", " ", "%", "-", "1",
        "2", "s", " ", "%", "-", "1", "2", "s", " ", "%", "-", "1", "2", "s", "%", "n", "\"",
        ",">>,
      \* line 215
      <<"S", "y", "s", "t", "e", "m", ".", "o", "u", "t", ".", "p", "r", "i", "n", "t", "f",
        "(", "\"", "%", "-", "1", "2", "s", " ", "%", "-", "1", "2", "s", "%", "n", "\"",
        ",", " ", "\"", "T", "i", "c", "k", "e", "r", "\"", ",", " ", "\"", "Q", "u", "a",
        "n", "t", "i", "t", "y", "\"", ")", ";">>,
      \* line 231
      <<"S", "y", "s", "t", "e", "m", ".", "o", "u", "t", ".", "p", "r", "i", "n", "t", "f",
        "(", "\"", "%", "-", "1", "2", "s", " ", "%", "-", "1", "2", ".", "2", "f", "%", "n",
        "\"", ",", " ", "e", "n", "t", "r", "y", ".", "g", "e", "t", "K", "e", "y", "(", ")",
        ",", " ", "e", "n", "t", "r", "y", ".", "g", "e", "t", "V", "a", "l", "u", "e", "(",
        ")", ")", ";">>,
      \* line 261
      <<"S", "i", "m", "p", "l", "e", "D", "a", "t", "e", "F", "o", "r", "m", "a", "t", " ",
        "s", "d", "f", " ", "=", " ", "n", "e", "w", " ", "S", "i", "m", "p", "l", "e", "D",
        "a", "t", "e", "F", "o", "r", "m", "a", "t", "(", "\"", "M", "M", "/", "d", "d", "/",
        "y", "y", "y", "y", "\"", ")", ";">>,
      \* line 266
      <<"S", "i", "m", "p", "l", "e", "D", "a", "t", "e", "F", "o", "r", "m", "a", "t", " ",
        "s", "d", "f", " ", "=", " ", "n", "e", "w", " ", "S", "i", "m", "p", "l", "e", "D",
        "a", "t", "e", "F", "o", "r", "m", "a", "t", "(", "\"", "M", "M", "/", "d", "d", "/",
        "y", "y", "y", "y", " ", "H", "H", ":", "m", "m", ":", "s", "s", "\"", ")", ";">>
    }

Digits == {"0", "1", "2", "3", "4", "5", "6", "7", "8", "9"}

UpperCase == <<"A", "B", "C", "D", "E", "F", "G", "H", "I", "J", "K", "L", "M", "N", "O", "P",
               "Q", "R", "S", "T", "U", "V", "W", "X", "Y", "Z">>

LowerCase == <<"a", "b", "c", "d", "e", "f", "g", "h", "i", "j", "k", "l", "m", "n", "o", "p",
               "q", "r", "s", "t", "u", "v", "w", "x", "y", "z">>

\* the i flag: letters are compared without their case
Fold(c) ==
    IF \E k \in 1..26 : UpperCase[k] = c
    THEN LowerCase[CHOOSE k \in 1..26 : UpperCase[k] = c]
    ELSE c

\* the pattern, a sequence of sets of characters, matches the line at i
MatchesAt(line, i, pattern) ==
    /\ i + Len(pattern) - 1 <= Len(line)
    /\ \A k \in 1..Len(pattern) : Fold(line[i + k - 1]) \in pattern[k]

Literal(word) == [k \in 1..Len(word) |-> {word[k]}]

\* /first.*second/i: `.` does not match a line terminator
MatchesInOrder(text, first, second) ==
    \E line \in text : \E i \in 1..Len(line), j \in 1..Len(line) :
        /\ MatchesAt(line, i, Literal(first))
        /\ j >= i + Len(first)
        /\ MatchesAt(line, j, Literal(second))

\* /invalid.*input|error.*message/i.test(portfolioContent)
hasMenuErrorHandling(text) ==
    \/ MatchesInOrder(text, <<"i", "n", "v", "a", "l", "i", "d">>, <<"i", "n", "p", "u", "t">>)
    \/ MatchesInOrder(text, <<"e", "r", "r", "o", "r">>,
                      <<"m", "e", "s", "s", "a", "g", "e">>)

\* /\d{2}\/\d{2}\/\d{4}|\d{2}:\d{2}:\d{2}/i.test(portfolioContent)
hasTimestamp(text) ==
    \E line \in text : \E i \in 1..Len(line) :
        \/ MatchesAt(line, i, <<Digits, Digits, {"/"}, Digits, Digits, {"/"},
                                Digits, Digits, Digits, Digits>>)
        \/ MatchesAt(line, i, <<Digits, Digits, {":"}, Digits, Digits, {":"}, Digits, Digits>>)

\* analyzeCodeStructure(transactionContent, portfolioContent, 'Rikin Shah') on
\* the sample pair: the pair matches the pattern of every other probe
SampleReport ==
    [UniformReport("strict", TRUE) EXCEPT
        !.display.hasTimestamp = hasTimestamp(SamplePortfolioLines),
        !.standards.hasMenuErrorHandling = hasMenuErrorHandling(SamplePortfolioLines)]

\* --------------------------------------------- compileAndRun: properties
\* the steps of the fallback chain, in order
Chain == services \o <<"fallback">>

\* every remote service has been called and has failed
AllRemoteFailed ==
    /\ Len(calls) >= Len(services)
    /\ \A i \in 1..Len(services) : calls[i].outcome = "failed"

\* the last call of a remote service that has settled
ServiceSettled == Len(calls) >= 1 /\ pc # "awaiting"

LastServiceCall ==
    calls[IF calls[Len(calls)].step = "fallback" THEN Len(calls) - 1 ELSE Len(calls)]

\* C7: whatever the texts and whatever the remote services do (answer, answer
\* with an error, fail or time out), compileAndRun ends by returning a result,
\* and a result with compilationSuccess = FALSE carries a non-empty
\* compilationErrors text.
C7_FailureIsAResult ==
    /\ pc \in {"loop", "awaiting", "returned"}
    /\ pc = "returned" =>
          /\ calls[Len(calls)].outcome = "ok"
          /\ result.compilationSuccess \in BOOLEAN
          /\ ~result.compilationSuccess => result.compilationErrors # ""

\* both remote requests failed and the call returned a failed compilation
C7_Witness ==
    /\ pc = "returned"
    /\ response.kind = "error"
    /\ AllRemoteFailed
    /\ ~result.compilationSuccess
    /\ result.compilationErrors = "Simulated compilation error"

\* C8: the steps are taken in the fixed order JDoodle, CodeX, simulation; a
\* step is taken only after every earlier one has failed; the first service
\* that succeeds has its result returned and nothing is invoked after it.
C8_FixedOrder ==
    /\ Len(calls) <= Len(Chain)
    /\ \A i \in 1..Len(calls) : calls[i].step = Chain[i]
    /\ \A i \in 2..Len(calls) : calls[i - 1].outcome = "failed"
    /\ \A i \in 1..Len(calls) :
          calls[i].outcome = "ok" =>
              /\ i = Len(calls)
              /\ pc = "returned"
              /\ calls[i].step # "fallback" =>
                    result = tryService(calls[i].step, response).value

\* CodeX succeeded after JDoodle had failed
C8_Witness ==
    /\ pc = "returned"
    /\ Len(calls) = 2
    /\ calls[1] = [step |-> "JDoodle", outcome |-> "failed"]
    /\ calls[2] = [step |-> "CodeX", outcome |-> "ok"]

\* C9: when every remote service has failed, the result's compilationSuccess
\* is the static heuristic: both texts have a class declaration, a semicolon,
\* an opening brace before a closing one and a keyword, and the portfolio text
\* has a main method.
C9_FallbackIsHeuristic ==
    (pc = "returned" /\ AllRemoteFailed) =>
        result.compilationSuccess =
            (/\ \A t \in {transactionContent, portfolioContent} :
                    hasClass(t) /\ hasSemicolons(t) /\ hasBraces(t) /\ hasValidKeywords(t)
             /\ hasMainMethodText(portfolioContent))

\* every remote service failed and the simulation reports a successful compilation
C9_Witness ==
    /\ pc = "returned"
    /\ AllRemoteFailed
    /\ result.compilationSuccess
    /\ result.executionSuccess

\* a body with statusCode 200 and a text as output
WellFormedSuccess(resp) ==
    /\ resp.kind = "json"
    /\ resp.statusCode = JsNumber(200)
    /\ resp.output.type = "string"

AcceptedResponse(resp) ==
    /\ resp.kind = "json"
    /\ resp.statusCode = JsNumber(200)
    /\ resp.output.type = "string" \/ ~Truthy(resp.output)

C18_EventuallyReturns ==
    /\ <>(pc = "returned")
    /\ \A n \in 1..Len(services) :
          (pc = "awaiting" /\ serviceIdx = n) ~> (pc = "returned" \/ Len(calls) > n)

\* the last remote request timed out and the simulation returned a success
C18_Witness ==
    /\ pc = "returned"
    /\ response.kind = "error"
    /\ calls[Len(calls)] = [step |-> "fallback", outcome |-> "ok"]
    /\ result.compilationSuccess

\* ------------------------------------------- upload pipeline: properties

\* generateFeedback was called for the request (the catch of callExistingGrader
\* was not taken)
FeedbackGenerated == stage \in {"graded", "responded"} /\ DOMAIN analysis # {}

AllFalse(tests) == \A i \in 1..Len(tests) : ~tests[i].success

Names(tests) == [i \in 1..Len(tests) |-> tests[i].name]

\* o occurs, whole and unchanged, inside the text of one of the lines
ContainsText(lines, o) ==
    \/ o = <<>>
    \/ \E i \in 1..Len(lines) : \E k \in 1..Len(lines[i].text) :
          SubSeq(lines[i].text, k, k + Len(o) - 1) = o

\* C11: the feedback lines contain, verbatim and unmodified, the
\* executionOutput that was passed to generateFeedback, also when it is
\* whitespace only or has leading or trailing whitespace.
C11_OutputVerbatim ==
    FeedbackGenerated => ContainsText(feedback, executionOutput)

\* C12: given the empty string, both analyzers return their full sequence
\* with every success false: analyzeExecutionOutput after a run that printed
\* nothing, analyzeOutput after a remote service returned no output.
C12_EmptyOutputAllFalse ==
    /\ (variant = "strict" /\ FeedbackGenerated /\ executionSuccess /\ executionOutput = <<>>)
          => (Len(testResults) = Len(analyzeExecutionOutput(<<>>)) /\ AllFalse(testResults))
    /\ (variant = "lenient" /\ FeedbackGenerated /\ executionOutput = <<NoOutput>>)
          => (Len(testResults) = Len(analyzeOutput(<<>>)) /\ AllFalse(testResults))

\* C13: when compilation succeeds and execution fails, testResults has the
\* names, the order and the length it has after a successful run.
C13_FullSequenceOnExecutionFailure ==
    (variant = "strict" /\ FeedbackGenerated /\ compilationSuccess /\ ~executionSuccess)
        => Names(testResults) = Names(analyzeExecutionOutput(<<>>))

\* C14: whatever step of the pipeline fails, the upload still stores a
\* submission, with total 0 and exactly one feedback line: no request ends
\* with an error response and nothing stored.
C14_FailureStoresZeroScore ==
    /\ stage # "failed"
    /\ (stage = "responded" /\ ~FeedbackGenerated)
          => /\ Len(submissions) = 1
             /\ submissions[1].grades.total = 0
             /\ Len(submissions[1].feedback) = 1

\* C15: analyzeCodeStructure never throws, whatever the student name (empty,
\* with regex metacharacters), and on two empty source texts every probe of
\* its report is false.
C15_AnalyzerNeverThrows ==
    stage # "received" =>
        LET a == analyzeCodeStructure(variant, transactionContent, portfolioContent,
                                      studentName)
        IN  /\ ~a.threw
            /\ (transactionContent = <<>> /\ portfolioContent = <<>>)
                  => \A g \in Groups : \A p \in ProbeKeys(variant, g) : ~a.report[g][p]

\* C16: the analysis attached to every stored submission, the one stored
\* after an internal failure included, has the four groups, each with exactly
\* its fixed probe keys and boolean values.
C16_ReportShape ==
    \A i \in 1..Len(submissions) :
        LET a == submissions[i].analysis
        IN  /\ DOMAIN a = Groups
            /\ \A g \in Groups :
                  /\ DOMAIN a[g] = ProbeKeys(variant, g)
                  /\ \A p \in ProbeKeys(variant, g) : a[g][p] \in BOOLEAN

\* the sections of the lines, in their order
Sections(lines) == [i \in 1..Len(lines) |-> lines[i].section]

\* the sections are emitted in the order of ranks: of two lines of ranked
\* sections, the later one does not have the lower rank
InOrder(lines, ranks) ==
    LET Ranked(l) == l.section \in DOMAIN ranks
        ranked == SelectSeq(lines, Ranked)
    IN  \A i \in 1..(Len(ranked) - 1) :
            ranks[ranked[i].section] <= ranks[ranked[i + 1].section]

\* C19 as stated: compilation, TransactionHistory, PortfolioManager, display,
\* coding standards, then the output block, then the test listing, then the
\* score breakdown, and the band comment as the last section.
C19_OrderAsStated ==
    (variant = "strict" /\ FeedbackGenerated) =>
        /\ InOrder(feedback,
                   [compilation |-> 1, transactionHistory |-> 2, portfolioManager |-> 3,
                    display |-> 4, standards |-> 5, output |-> 6, tests |-> 7,
                    breakdown |-> 8, band |-> 9])
        /\ feedback[Len(feedback)].section = "band"

\* C19, amended: compilation, TransactionHistory, PortfolioManager, display,
\* coding standards, execution status, score breakdown, band comment, and only
\* then the output block and after it the test listing (in vercel-grader.js,
\* which has no band, a closing banner ends the feedback).
C19_OrderInCode ==
    FeedbackGenerated =>
        /\ InOrder(feedback,
                   [compilation |-> 1, transactionHistory |-> 2, portfolioManager |-> 3,
                    display |-> 4, standards |-> 5, execution |-> 6, breakdown |-> 7,
                    band |-> 8, output |-> 9, tests |-> 10, closing |-> 11])
        /\ feedback[1].section = "compilation"
        /\ variant = "strict" =>
              \E i \in 1..Len(feedback) :
                  /\ feedback[i].section = "band"
                  /\ \A j \in (i + 1)..Len(feedback) :
                        feedback[j].section \in {"output", "tests"}

\* a graded upload whose feedback has all the sections, the output block and
\* the test listing after the band
C19_Witness ==
    /\ variant = "strict"
    /\ FeedbackGenerated
    /\ \E i, j, k \in 1..Len(feedback) :
          /\ i < j /\ j < k
          /\ feedback[i].section = "band"
          /\ feedback[j].section = "output"
          /\ feedback[k].section = "tests"

\* the line on menu input error handling among the lines
MenuErrorVerdict(lines) ==
    {lines[i].verdict : i \in {k \in 1..Len(lines) : lines[k].about = "menuErrorHandling"}}

\* C20: the line on menu input error handling is decided by the TestResult
\* named 'Error Handling Test' alone: with the same testResults, the opposite
\* value of standards.hasMenuErrorHandling gives the same line.
C20_MenuErrorLineFromTest ==
    (variant = "strict" /\ FeedbackGenerated) =>
        LET flipped == [analysis EXCEPT !.standards.hasMenuErrorHandling = ~@]
            working == \E i \in 1..Len(testResults) :
                           /\ testResults[i].name = "Error Handling Test"
                           /\ testResults[i].success
        IN  /\ MenuErrorVerdict(feedback) = {Found(working)}
            /\ MenuErrorVerdict(generateFeedback(variant, flipped, grades, compilationSuccess,
                                                 executionSuccess, compilationErrors,
                                                 executionOutput, testResults))
                  = MenuErrorVerdict(feedback)

\* the static probe is true, and feeds the score, while the line says missing
C20_Witness ==
    /\ variant = "strict"
    /\ FeedbackGenerated
    /\ executionSuccess
    /\ analysis.standards.hasMenuErrorHandling
    /\ MenuErrorVerdict(feedback) = {"missing"}
    /\ strictCalculateGrades([analysis EXCEPT !.standards.hasMenuErrorHandling = FALSE],
                             compilationSuccess, executionSuccess).standards
          # grades.standards

\* how many elements of the list are the submission of request r
Occurrences(list, r) == Cardinality({i \in 1..Len(list) : list[i].req = r})

\* C17: whatever the interleaving of the requests at their awaits, no append
\* is lost: the submission of every request that was answered with success is
\* exactly once in submissions and exactly once in the history of the one
\* student record of its email.
C17_NoLostAppend ==
    \A r \in 1..Len(requests) :
        requests[r].state = "responded" =>
            /\ Occurrences(submissions, r) = 1
            /\ Cardinality({i \in 1..Len(students) :
                               students[i].email = requests[r].email}) = 1
            /\ Occurrences(students[FindStudent(students, requests[r].email)].submissions, r)
                  = 1

\* two requests of one student were in flight together and the one that
\* arrived later was stored first; both are answered with success
C17_Witness ==
    /\ Len(requests) >= 2
    /\ requests[1].email = requests[2].email
    /\ requests[1].state = "responded"
    /\ requests[2].state = "responded"
    /\ submissions[1].req = 2
    /\ Len(students[1].submissions) = 2

\* C25: in every result of a compile/run path, executionSuccess implies
\* compilationSuccess: in the result of compileAndRun, in what the pipeline
\* hands to calculateGrades and generateFeedback, and in what is stored.
C25_ExecutionImpliesCompilation ==
    /\ result.executionSuccess => result.compilationSuccess
    /\ executionSuccess => compilationSuccess
    /\ \A i \in 1..Len(submissions) :
          submissions[i].executionSuccess => submissions[i].compilationSuccess

\* a local run that succeeded after a successful javac, stored with its flags
C25_Witness ==
    /\ stage = "responded"
    /\ variant = "strict"
    /\ executionSuccess
    /\ submissions[1].executionSuccess
    /\ submissions[1].compilationSuccess

\* the entry of the tests with the name, as a set
Named(tests, name) == {tests[i] : i \in {k \in 1..Len(tests) : tests[k].name = name}}

\* C29: the flags of the result of compileAndRun agree with its TestResults:
\* with compilationSuccess the 'Compilation Test' has success, with
\* executionSuccess the 'Execution Test' has success.
C29_FlagsAgreeWithTests ==
    pc = "returned" =>
        /\ result.compilationSuccess =>
              \E t \in Named(result.testResults, "Compilation Test") : t.success
        /\ result.executionSuccess =>
              \E t \in Named(result.testResults, "Execution Test") : t.success

\* a is the beginning of b
IsPrefix(a, b) == Len(a) <= Len(b) /\ SubSeq(b, 1, Len(a)) = a

\* the step is the handling of a read of the admin data
ReadStep == reply'.route \in {"dashboard", "student"} /\ reply' # reply

\* C24: handling GET /api/admin/dashboard or GET /api/admin/student/:email
\* leaves the submissions list and every student's history as they were, so
\* that every step only appends to them, in insertion order.
C24_ReadsLeaveStoreUnchanged ==
    [][/\ ReadStep => UNCHANGED <<submissions, students>>
       /\ IsPrefix(submissions, submissions')
       /\ \A i \in 1..Len(students) :
             /\ i <= Len(students')
             /\ IsPrefix(students[i].submissions, students'[i].submissions)]_vars

\* request r is answered with success in this step
Succeeds(r) == requests[r].state = "waiting" /\ requests'[r].state = "responded"

\* request r is answered with 500 in this step
Fails(r) == requests[r].state = "waiting" /\ requests'[r].state = "failed"

\* a request is answered with 400 in this step
Rejected == Len(requests') > Len(requests) /\ requests'[Len(requests')].state = "rejected"

OneRecordPerEmail(list) ==
    \A i, j \in 1..Len(list) : list[i].email = list[j].email => i = j

\* C26: the students list has at most one record per email, and an upload
\* with a known email updates that record: its name, its history and its
\* best score.
C26_OneRecordPerEmail ==
    [][\A r \in 1..Len(requests) :
          Succeeds(r) =>
              LET k == FindStudent(students', requests[r].email)
              IN  /\ OneRecordPerEmail(students')
                  /\ k # 0
                  /\ students'[k].name = requests[r].name
                  /\ \E i \in 1..Len(students'[k].submissions) :
                        students'[k].submissions[i].req = r
                  /\ \A i \in 1..Len(students'[k].submissions) :
                        students'[k].bestScore >= students'[k].submissions[i].total]_vars

\* C27: a request answered with 400 or 500 leaves submissions and students
\* unchanged; a request answered with success adds exactly one submission to
\* submissions and that submission to exactly one student record.
C27_AllOrNothing ==
    [][/\ Rejected => UNCHANGED <<submissions, students>>
       /\ \A r \in 1..Len(requests) :
             /\ Fails(r) => UNCHANGED <<submissions, students>>
             /\ Succeeds(r) =>
                   /\ submissions' = Append(submissions, submissions'[Len(submissions')])
                   /\ submissions'[Len(submissions')].req = r
                   /\ Occurrences(submissions, r) = 0
                   /\ \A i \in 1..Len(students) : Occurrences(students[i].submissions, r) = 0
                   /\ Cardinality({i \in 1..Len(students') :
                                      Occurrences(students'[i].submissions, r) = 1}) = 1
                   /\ \A i \in 1..Len(students') :
                         Occurrences(students'[i].submissions, r) <= 1]_vars

\* one request was answered with 500 after its first await and another with
\* success: the store holds the submission of the second only
C27_Witness ==
    /\ Len(requests) >= 2
    /\ requests[1].state = "failed"
    /\ requests[1].awaits > 1
    /\ requests[2].state = "responded"
    /\ Len(submissions) = 1
    /\ Len(students) = 1
    /\ students[1].submissions = submissions

\* C28: no two stored submissions share an id, and no two upload requests
\* use the same session id, which names the upload directory.
C28_UniqueIds ==
    /\ \A i, j \in 1..Len(submissions) : submissions[i].id = submissions[j].id => i = j
    /\ \A q, r \in 1..Len(requests) :
          (requests[q].sessionId >= 0 /\ requests[q].sessionId = requests[r].sessionId)
              => q = r

\* C30: the admin data routes return data only to a session that is
\* authenticated, and a session is authenticated only from a login with the
\* username 'admin' and the matching password until its logout; every other
\* request for admin data is answered 401 without data, /admin redirects to
\* /login, and a login answered 400 or 401 leaves the sessions as they were.
C30_AdminDataNeedsLogin ==
    [][/\ reply'.route \in {"dashboard", "student"} =>
             IF sessions'[reply'.cookie].authenticated
             THEN reply'.status \in {200, 404}
             ELSE reply'.status = 401 /\ ~reply'.data
       /\ reply'.route = "admin" =>
             reply'.status = IF sessions'[reply'.cookie].authenticated THEN 200 ELSE 302
       /\ \A c \in 1..MaxSessions :
             /\ (~sessions[c].authenticated /\ sessions'[c].authenticated) =>
                   /\ reply' = LoginResponse(c, 200, "admin", "admin123")
             /\ (reply'.route = "logout" /\ reply'.cookie = c) => ~sessions'[c].authenticated
       /\ (reply'.route = "login" /\ reply'.status # 200) => UNCHANGED sessions]_vars

\* one browser has logged in and is given the dashboard while the other is
\* not authenticated
C30_Witness ==
    /\ reply = Response("dashboard", 1, 200, TRUE)
    /\ sessions[1].authenticated
    /\ ~sessions[2].authenticated

\* C22: every stored credential derives from a password of at least 6
\* characters, and a call given a shorter password is rejected and leaves the
\* stored credentials as they were.
C22_PasswordsAtLeastSix ==
    /\ [](\A i \in 1..Len(professors) :
             Len(professors[i].password_hash[2]) >= MinPasswordLength)
    /\ [][(/\ reply'.route \in {"registerProfessor", "updateProfessor", "resetPassword"}
           /\ Len(reply'.password) < MinPasswordLength
           /\ reply'.password # "")
          => (reply'.status = 400 /\ UNCHANGED professors)]_vars

\* the calls of that kind that have reported success
Succeeded(call) ==
    {k \in 1..Len(updates) : /\ updates[k].call = call
                             /\ updates[k].at = "done"
                             /\ updates[k].success}

\* C23: whatever the interleaving, the student row holds the submission of
\* every updateStudent call that reported success, its submission_count is
\* their number and its best_score the largest of their totals; the record's
\* total_attempts is the number of updateStudentAssignment calls that went
\* through.
C23_NoLostUpdate ==
    /\ Succeeded("updateStudent") # {} =>
          LET row == SelectSingle(rows.students, StudentEmail)
          IN  /\ \A k \in Succeeded("updateStudent") :
                     \E i \in 1..Len(row.submissions) :
                         row.submissions[i] = updates[k].submission
              /\ row.submission_count = Cardinality(Succeeded("updateStudent"))
              /\ \A k \in Succeeded("updateStudent") :
                     row.best_score >= updates[k].submission.total
    /\ SelectSingle(rows.student_assignments, StudentEmail).total_attempts
           = Cardinality(Succeeded("updateStudentAssignment"))

\* C21: the repository's sample pair, graded under the name 'Rikin Shah' with
\* compilation and execution successful, has every probe of its report true
\* and gets 25 in each of the four categories and a total of 100.
C21_SamplePairIsPerfect ==
    (/\ Graded
     /\ variant = "strict"
     /\ analysis = SampleReport
     /\ compilationSuccess
     /\ executionSuccess)
    => /\ analysis = UniformReport("strict", TRUE)
       /\ grades.transactionHistory = 25
       /\ grades.portfolioManager = 25
       /\ grades.display = 25
       /\ grades.standards = 25
       /\ grades.total = 100

====
